---------------------------- MODULE Spec2Model ----------------------------
(***************************************************************************)
(* Breakout-detection engine of the repository: indicator computation,     *)
(* the bottom-breakout scoring variants and the ranking layer of the       *)
(* daily monitor.                                                          *)
(*                                                                         *)
(* Numbers.  Prices and volumes are integers (price ticks, lots).  Every   *)
(* ratio the code forms (a mean, a drawdown, a volume ratio, the RSI) is   *)
(* an exact fraction [n, d]; d = 0 is pandas' NaN.  Comparisons are done   *)
(* by cross-multiplication, so they are exact.  The exponential averages   *)
(* (ewm) are fixed-point numbers with three decimals of a tick, truncated  *)
(* at every step; like pandas, a step whose input equals the running       *)
(* average leaves it unchanged.  Scores are in tenths of a point (the      *)
(* code rounds them to one decimal): 10 points are 100.                    *)
(***************************************************************************)
EXTENDS Integers, Sequences, FiniteSets, TLC

VARIABLES
    pc,               \* position of the run: "fetched", "indicators", "done"
    script,           \* which analysis script is running
    df,               \* the bar sequence (DataFrame) with its indicator columns
    result,           \* what check_bottom_breakout / analyze_breakout returned
    industry_file,    \* industry_breakout_results.json as the monitor finds it
    etf_file,         \* etf_breakout_results[_fixed].json as the monitor finds it
    industry_result,  \* what run_industry_breakout_analysis returned
    etf_result,       \* what run_etf_breakout_analysis[_enhanced] returned
    combined,         \* what combine_results returned
    news_service,     \* what the news search finds, known once combine_results asked
    idx,              \* etf_breakout_analysis_fixed.main: instruments visited so far
    fetched,          \* what get_etf_data returned for each of them, in order
    results,          \* the assessments collected so far
    categories,       \* the category statistics at the end of main
    file_run,         \* which run wrote etf_breakout_results_fixed.json
    classified_name,  \* categorize_etf: the name to classify
    classified_as,    \* categorize_etf: the category returned
    logged_in         \* whether the script holds an open baostock session

monitor_vars == <<industry_file, etf_file, industry_result, etf_result, combined, news_service>>

batch_vars == <<idx, fetched, results, categories, file_run>>

classifier_vars == <<classified_name, classified_as>>

vars == <<pc, script, df, result, monitor_vars, batch_vars, classifier_vars, logged_in>>

---------------------------------------------------------------------------
(* Bounds of the inputs *)

MaxLen == 61

\* start price of a generated series, in ticks
StartPrices == {1000}
\* change of the close per bar before the last bar
Slopes == {-10, -1, 0}
\* extra move of the last close against the trend
Jumps == {0, 15, 30, 150, 250}
\* high minus close of every bar
Spreads == {0, 5}
\* <<volume of the bars before the last ten, volume of the last ten>>
VolumePairs == {<<100, 100>>, <<100, 150>>, <<100, 250>>, <<0, 100>>}

---------------------------------------------------------------------------
(* Python / pandas primitives *)

None == [None |-> TRUE]

Min(a, b) == IF a <= b THEN a ELSE b

Max(a, b) == IF a >= b THEN a ELSE b

\* pandas NaN
NaN == [n |-> 0, d |-> 0]

Frac(n, d) == [n |-> n, d |-> d]

isna(x) == x.d = 0

\* x > y, x < y, x <= y on floats: every comparison with NaN is False
Gt(x, y) == x.d > 0 /\ y.d > 0 /\ x.n * y.d > y.n * x.d

Lt(x, y) == Gt(y, x)

Le(x, y) == x.d > 0 /\ y.d > 0 /\ x.n * y.d <= y.n * x.d

Num(k) == Frac(k, 1)

\* s.iloc[-a:-b] as the index range it selects (b = 0: up to the end)
ilocFrom(s, a) == Max(1, Len(s) - a + 1)

\* s.iloc[..:-b] with the bar at -b let in
ilocTo_inclusive(s, b) == Len(s) - b + 1

ilocTo(s, b) == Len(s) - b

RECURSIVE SumRange(_, _, _)
SumRange(s, lo, hi) ==
    IF lo > hi THEN 0
    ELSE IF lo = hi THEN s[lo]
    ELSE SumRange(s, lo, (lo + hi) \div 2) + SumRange(s, (lo + hi) \div 2 + 1, hi)

RECURSIVE MaxRange(_, _, _)
MaxRange(s, lo, hi) ==
    IF lo = hi THEN s[lo]
    ELSE Max(MaxRange(s, lo, (lo + hi) \div 2), MaxRange(s, (lo + hi) \div 2 + 1, hi))

RECURSIVE MinRange(_, _, _)
MinRange(s, lo, hi) ==
    IF lo = hi THEN s[lo]
    ELSE Min(MinRange(s, lo, (lo + hi) \div 2), MinRange(s, (lo + hi) \div 2 + 1, hi))

\* Series.mean() of s[lo..hi]; the mean of nothing is NaN
MeanRange(s, lo, hi) ==
    IF lo > hi THEN NaN ELSE Frac(SumRange(s, lo, hi), hi - lo + 1)

\* round(x, k) as the integer round(x * scale); a decimal tie is settled by
\* the binary representation of the float, either way
RoundSet(x, scale) ==
    LET num == x.n * scale
        q == num \div x.d
        r == num % x.d
    IN  IF 2 * r < x.d THEN {q}
        ELSE IF 2 * r > x.d THEN {q + 1}
        ELSE {q, q + 1}

\* Series.rolling(window=w).mean(): NaN at the first w-1 positions
rolling_mean(s, w) ==
    [i \in 1..Len(s) |->
        IF i < w THEN NaN ELSE Frac(SumRange(s, i - w + 1, i), w)]

ToFixed(x) == x * 1000

\* one step of ewm(span, adjust=False): y = (1-a)*y + a*x, a = 2/(span+1)
ewm_step(y, x, span) ==
    IF y = x THEN y ELSE ((span - 1) * y + 2 * x) \div (span + 1)

RECURSIVE ewm_from(_, _, _, _, _)
\* the averages at positions lo..hi, y being the average at position lo - 1
ewm_from(y, s, span, lo, hi) ==
    IF lo = hi THEN <<ewm_step(y, s[lo], span)>>
    ELSE LET mid == (lo + hi) \div 2
             head == ewm_from(y, s, span, lo, mid)
         IN  head \o ewm_from(head[Len(head)], s, span, mid + 1, hi)

\* Series.ewm(span, adjust=False).mean() of a fixed-point series: the first
\* average is the first value
ewm_mean(s, span) ==
    IF Len(s) = 0 THEN << >>
    ELSE IF Len(s) = 1 THEN <<s[1]>>
    ELSE <<s[1]>> \o ewm_from(s[1], s, span, 2, Len(s))

\* Series.diff(); position 1 has no predecessor
diff(s) == [i \in 1..Len(s) |-> IF i = 1 THEN NaN ELSE Num(s[i] - s[i - 1])]

\* delta.where(delta > 0, 0) and -delta.where(delta < 0, 0), as integers
gains(s) ==
    [i \in 1..Len(s) |-> IF Gt(diff(s)[i], Num(0)) THEN diff(s)[i].n ELSE 0]

losses(s) ==
    [i \in 1..Len(s) |-> IF Lt(diff(s)[i], Num(0)) THEN 0 - diff(s)[i].n ELSE 0]


\* rs = gain / loss; 100 - 100 / (1 + rs), with IEEE division: x/0 is inf
\* for x > 0 (so the result is 100) and 0/0 is NaN
rsi_value(gain, loss) ==
    IF isna(gain) \/ isna(loss) THEN NaN
    ELSE IF loss.n = 0 THEN (IF gain.n = 0 THEN NaN ELSE Num(100))
    ELSE Frac(100 * gain.n, gain.n + loss.n)

---------------------------------------------------------------------------
(* The bar sequence *)

\* a DataFrame: the fetched columns, the names of the columns present and
\* the indicator columns (empty while absent)
DataFrame(close, high, low, volume) ==
    [close |-> close, high |-> high, low |-> low, volume |-> volume,
     columns |-> {"close", "high", "low", "volume"},
     MA20 |-> << >>, MACD |-> << >>, MACD_signal |-> << >>, RSI |-> << >>,
     price_position |-> << >>]

\* len(df)
len(d) == Len(d.close)

\* s.iloc[-k]
ilocNeg(s, k) == s[Len(s) - k + 1]

\* the bounded family of fetched histories: a linear trend, a move on the
\* last bar, a volume level for the last ten bars
Bars(L, p0, slope, jump, spread, vols) ==
    LET close == [i \in 1..L |->
                    p0 + slope * (i - 1) + (IF i = L THEN jump ELSE 0)]
    IN  DataFrame(close,
                  [i \in 1..L |-> close[i] + spread],
                  [i \in 1..L |-> close[i] - spread],
                  [i \in 1..L |-> IF i > L - 10 THEN vols[2] ELSE vols[1]])

\* what get_etf_data / get_industry_history can return: None (an error code,
\* no rows, an exception) or a history of at least one bar
Inputs ==
    {None} \cup
    {Bars(L, p0, slope, jump, spread, vols) :
        L \in 1..MaxLen, p0 \in StartPrices, slope \in Slopes,
        jump \in Jumps, spread \in Spreads, vols \in VolumePairs}

---------------------------------------------------------------------------
(* etf_breakout_analysis_fixed.py *)

\* df['RSI'] of every variant that divides by the bare loss
rsi_column(close) ==
    LET gain == rolling_mean(gains(close), 14)
        loss == rolling_mean(losses(close), 14)
    IN  [i \in 1..Len(close) |-> rsi_value(gain[i], loss[i])]

macd_column(close, fast, slow) ==
    LET fx == [i \in 1..Len(close) |-> ToFixed(close[i])]
        exp1 == ewm_mean(fx, fast)
        exp2 == ewm_mean(fx, slow)
    IN  [i \in 1..Len(close) |-> exp1[i] - exp2[i]]

\* calculate_technical_indicators_fixed with the MACD computed for every
\* history the function does not return early on
calculate_technical_indicators_fixed_always_macd(d) ==
    IF d = None \/ len(d) < 20 THEN d
    ELSE
    LET available_days == len(d)
        ma_window == Min(20, available_days \div 3)
        d1 == IF ma_window >= 5
              THEN [d EXCEPT !.MA20 = rolling_mean(d.close, ma_window),
                             !.columns = @ \cup {"MA20"}]
              ELSE d
        macd == macd_column(d.close, Min(12, available_days \div 2),
                            Min(26, available_days \div 2))
        d2 == IF available_days >= 20
              THEN [d1 EXCEPT !.MACD = macd,
                              !.MACD_signal =
                                  ewm_mean(macd, Min(9, available_days \div 3)),
                              !.columns = @ \cup {"MACD", "MACD_signal"}]
              ELSE d1
    IN  IF available_days >= 14
        THEN [d2 EXCEPT !.RSI = rsi_column(d.close),
                        !.columns = @ \cup {"RSI"}]
        ELSE d2

calculate_technical_indicators_fixed(d) ==
    IF d = None \/ len(d) < 20 THEN d
    ELSE
    LET available_days == len(d)
        ma_window == Min(20, available_days \div 3)
        d1 == IF ma_window >= 5
              THEN [d EXCEPT !.MA20 = rolling_mean(d.close, ma_window),
                             !.columns = @ \cup {"MA20"}]
              ELSE d
        macd == macd_column(d.close, Min(12, available_days \div 2),
                            Min(26, available_days \div 2))
        d2 == IF available_days >= 26
              THEN [d1 EXCEPT !.MACD = macd,
                              !.MACD_signal =
                                  ewm_mean(macd, Min(9, available_days \div 3)),
                              !.columns = @ \cup {"MACD", "MACD_signal"}]
              ELSE d1
    IN  IF available_days >= 14
        THEN [d2 EXCEPT !.RSI = rsi_column(d.close),
                        !.columns = @ \cup {"RSI"}]
        ELSE d2

\* lines 321-369; the identity and price fields of the dict are left out
create_basic_result(d) ==
    IF d = None \/ len(d) = 0 THEN {None}
    ELSE
    LET current_price == ilocNeg(d.close, 1)
        prev_price == ilocNeg(d.close, 2)
        price_change ==
            IF len(d) >= 2 /\ prev_price > 0
            THEN Frac((current_price - prev_price) * 100, prev_price)
            ELSE Num(0)
        ma_window == Min(5, len(d))
        above_ma ==
            IF ma_window >= 3
            THEN Gt(Num(current_price),
                    MeanRange(d.close, ilocFrom(d.close, ma_window), len(d)))
            ELSE FALSE
        recent_volume == MeanRange(d.volume, ilocFrom(d.volume, 5), len(d))
        prev_volume ==
            IF len(d) >= 10
            THEN MeanRange(d.volume, ilocFrom(d.volume, 10), ilocTo(d.volume, 5))
            ELSE recent_volume
        volume_ratio ==
            IF len(d) >= 5 /\ Gt(prev_volume, Num(0))
            THEN Frac(recent_volume.n * prev_volume.d,
                      prev_volume.n * recent_volume.d)
            ELSE Num(1)
        score == (IF above_ma THEN 2 ELSE 0)
                 + (IF Gt(volume_ratio, Frac(12, 10)) THEN 2 ELSE 0)
                 + (IF Gt(price_change, Num(0)) THEN 1 ELSE 0)
    IN  {[price_change_pct |-> pcp,
          above_ma |-> above_ma,
          volume_ratio |-> vr,
          score |-> 10 * score,
          all_conditions_met |-> FALSE,
          data_days |-> len(d),
          analysis_type |-> "basic"] :
            pcp \in RoundSet(price_change, 100),
            vr \in RoundSet(volume_ratio, 100)}

\* line 264 (and etf_breakout_analysis.py:175, industry_breakout_analysis.py:173)
macd_golden_cross_le(macd_previous, macd_signal_previous, macd_current, macd_signal_current) ==
    macd_current > macd_signal_current /\ macd_previous <= macd_signal_previous

\* line 270
rsi_recovery_of(rsi_previous, rsi_current) ==
    Lt(rsi_previous, Num(30)) /\ Gt(rsi_current, Num(50))

\* lines 279-288
base_score_fixed(c1, c2, c3, c4, volume_ratio, price_break_ma20, price_break_high, macd_golden_cross, rsi_recovery) ==
    (IF c1 THEN 2 ELSE 0) + (IF c2 THEN 2 ELSE 0)
    + (IF c3 THEN 3 ELSE 0) + (IF c4 THEN 2 ELSE 0)
    + (IF Gt(volume_ratio, Frac(18, 10)) THEN 1 ELSE 0)
    + (IF price_break_ma20 /\ price_break_high THEN 1 ELSE 0)
    + (IF macd_golden_cross /\ rsi_recovery THEN 1 ELSE 0)

\* final_score_fixed without the cap: base_score * (0.5 + 0.5 * factor)
final_score_fixed_uncapped(base_score, available_days) ==
    Frac(base_score * (60 + Min(60, available_days)), 120)

\* final_score_fixed with the factor taken by floor division and no 0.5
\* floor: min(10, base_score * min(1, days // 60))
final_score_fixed_floor_division(base_score, available_days) ==
    Frac(Min(10 * 120,
             base_score * 120 * Min(1, available_days \div 60)), 120)

\* final_score_fixed without the 0.5 floor: min(10, base_score * factor)
final_score_fixed_no_floor(base_score, available_days) ==
    Frac(Min(10 * 120, base_score * 2 * Min(60, available_days)), 120)

\* lines 291-292: min(10, base_score * (0.5 + 0.5 * min(1.0, days / 60.0)))
final_score_fixed(base_score, available_days) ==
    LET scaled == base_score * (60 + Min(60, available_days))
    IN  Frac(Min(10 * 120, scaled), 120)

\* all_conditions_met_of taken from a count of conditions, as a score
\* threshold would take it
all_conditions_met_three_of_four(c1, c2, c3, c4) ==
    (IF c1 THEN 1 ELSE 0) + (IF c2 THEN 1 ELSE 0)
    + (IF c3 THEN 1 ELSE 0) + (IF c4 THEN 1 ELSE 0) >= 3

\* line 314 (and etf_breakout_analysis.py:219, industry_breakout_analysis.py:217)
all_conditions_met_of(c1, c2, c3, c4) == c1 /\ c2 /\ c3 /\ c4

\* needs_basic with the floor itself counted as too short
needs_basic_inclusive(available_days) == Min(60, available_days) <= 20

\* lines 207-208: analysis_window = min(60, available_days) is below 20
needs_basic(available_days) == Min(60, available_days) < 20

\* price_break_ma20_of with >= for >
price_break_ma20_ge(current_price, ma20) ==
    ~isna(ma20) /\ current_price * ma20.d >= ma20.n

\* line 245 (and etf_breakout_analysis.py:163)
price_break_ma20_of(current_price, ma20) == Gt(Num(current_price), ma20)

\* lines 204-292: the local variables of check_bottom_breakout at line 292,
\* for a history of at least 20 bars
locals_fixed(d) ==
    LET available_days == len(d)
        analysis_window == Min(60, available_days)
        \* recent_df = df.iloc[-analysis_window:]
        first == ilocFrom(d.close, analysis_window)
        current_price == ilocNeg(d.close, 1)
        lookback_window == Min(120, available_days)
        max_price == MaxRange(d.close, ilocFrom(d.close, lookback_window),
                              available_days)
        min_price == MinRange(d.close, first, available_days)
        drawdown == IF max_price > 0
                    THEN Frac(max_price - min_price, max_price)
                    ELSE Num(0)
        recent_volume_mean ==
            MeanRange(d.volume, Max(first, ilocFrom(d.volume, 10)),
                      available_days)
        bottom_volume_mean ==
            MeanRange(d.volume, Max(first, ilocFrom(d.volume, 20)),
                      ilocTo(d.volume, 10))
        volume_ratio ==
            IF Gt(bottom_volume_mean, Num(0))
            THEN Frac(recent_volume_mean.n * bottom_volume_mean.d,
                      bottom_volume_mean.n * recent_volume_mean.d)
            ELSE Num(1)
        price_break_ma20 ==
            IF "MA20" \in d.columns /\ ~isna(ilocNeg(d.MA20, 1))
            THEN price_break_ma20_of(current_price, ilocNeg(d.MA20, 1))
            ELSE FALSE
        lookback_high == Min(20, analysis_window - 1)
        \* recent_df['high'].iloc[-lookback_high:-1].max()
        recent_high ==
            MaxRange(d.high, Max(first, ilocFrom(d.high, lookback_high)),
                     ilocTo(d.high, 1))
        price_break_high ==
            IF lookback_high > 1 THEN current_price > recent_high ELSE FALSE
        macd_golden_cross ==
            IF "MACD" \in d.columns /\ "MACD_signal" \in d.columns
               /\ len(d) >= 2
            THEN macd_golden_cross_le(ilocNeg(d.MACD, 2),
                                      ilocNeg(d.MACD_signal, 2),
                                      ilocNeg(d.MACD, 1),
                                      ilocNeg(d.MACD_signal, 1))
            ELSE FALSE
        rsi_recovery ==
            IF "RSI" \in d.columns /\ len(d) >= 5
            THEN rsi_recovery_of(ilocNeg(d.RSI, 5), ilocNeg(d.RSI, 1))
            ELSE FALSE
        condition1 == Gt(drawdown, Frac(15, 100))
        condition2 == Gt(volume_ratio, Frac(13, 10))
        condition3 == price_break_ma20 \/ price_break_high
        condition4 == macd_golden_cross \/ rsi_recovery
        base_score ==
            base_score_fixed(condition1, condition2, condition3, condition4,
                             volume_ratio, price_break_ma20, price_break_high,
                             macd_golden_cross, rsi_recovery)
    IN  [available_days |-> available_days,
         analysis_window |-> analysis_window,
         drawdown |-> drawdown,
         volume_ratio |-> volume_ratio,
         price_break_ma20 |-> price_break_ma20,
         price_break_high |-> price_break_high,
         macd_golden_cross |-> macd_golden_cross,
         rsi_recovery |-> rsi_recovery,
         condition1 |-> condition1,
         condition2 |-> condition2,
         condition3 |-> condition3,
         condition4 |-> condition4,
         base_score |-> base_score,
         final_score |-> final_score_fixed(base_score, available_days)]

\* lines 199-319: the set of dicts the call can return (one, or more where
\* a rounding meets a decimal tie); the identity and price fields are left
\* out
check_bottom_breakout_fixed(d) ==
    IF d = None THEN {None}
    ELSE IF needs_basic(len(d)) THEN create_basic_result(d)
    ELSE
    LET v == locals_fixed(d)
    IN  {[drawdown |-> dd,
          volume_ratio |-> vr,
          price_break_ma20 |-> v.price_break_ma20,
          price_break_high |-> v.price_break_high,
          macd_golden_cross |-> v.macd_golden_cross,
          rsi_recovery |-> v.rsi_recovery,
          score |-> sc,
          condition1 |-> v.condition1,
          condition2 |-> v.condition2,
          condition3 |-> v.condition3,
          condition4 |-> v.condition4,
          all_conditions_met |->
              all_conditions_met_of(v.condition1, v.condition2,
                                    v.condition3, v.condition4),
          data_days |-> v.available_days,
          analysis_window |-> v.analysis_window] :
            dd \in RoundSet(v.drawdown, 1000),
            vr \in RoundSet(v.volume_ratio, 100),
            sc \in RoundSet(v.final_score, 10)}

---------------------------------------------------------------------------
(* etf_breakout_analysis.py and industry_breakout_analysis.py *)

\* the indicator columns both scripts compute with the canonical windows
canonical_indicators(d) ==
    LET macd == macd_column(d.close, 12, 26)
    IN  [d EXCEPT !.MA20 = rolling_mean(d.close, 20),
                  !.MACD = macd,
                  !.MACD_signal = ewm_mean(macd, 9),
                  !.RSI = rsi_column(d.close),
                  !.columns = @ \cup {"MA20", "MACD", "MACD_signal", "RSI"}]

\* etf_breakout_analysis.py lines 106-128
calculate_technical_indicators_etf(d) ==
    IF d = None \/ len(d) < 60 THEN d ELSE canonical_indicators(d)

\* industry_breakout_analysis.py lines 95-126
calculate_technical_indicators_industry(d) ==
    IF d = None \/ len(d) = 0 THEN None ELSE canonical_indicators(d)

\* etf_breakout_analysis.py lines 187-197, industry_breakout_analysis.py
\* lines 185-195
base_score_etf(c1, c2, c3, c4, volume_ratio, price_break_ma20, price_break_high, macd_golden_cross, rsi_recovery) ==
    (IF c1 THEN 2 ELSE 0) + (IF c2 THEN 3 ELSE 0)
    + (IF c3 THEN 3 ELSE 0) + (IF c4 THEN 2 ELSE 0)
    + (IF Gt(volume_ratio, Num(2)) THEN 1 ELSE 0)
    + (IF price_break_ma20 /\ price_break_high THEN 1 ELSE 0)
    + (IF macd_golden_cross /\ rsi_recovery THEN 1 ELSE 0)

\* etf_breakout_analysis.py lines 135-197: the local variables of
\* check_bottom_breakout at line 197, for a history of at least 60 bars
locals_etf(d) ==
    LET \* recent_df = df.iloc[-60:]
        first == ilocFrom(d.close, 60)
        current_price == ilocNeg(d.close, 1)
        max_price_120 == MaxRange(d.close, 1, len(d))
        min_price_60 == MinRange(d.close, first, len(d))
        drawdown == IF max_price_120 > 0
                    THEN Frac(max_price_120 - min_price_60, max_price_120)
                    ELSE Num(0)
        recent_volume_mean ==
            MeanRange(d.volume, ilocFrom(d.volume, 10), len(d))
        bottom_volume_mean ==
            MeanRange(d.volume, ilocFrom(d.volume, 20), ilocTo(d.volume, 10))
        volume_ratio ==
            IF Gt(bottom_volume_mean, Num(0))
            THEN Frac(recent_volume_mean.n * bottom_volume_mean.d,
                      bottom_volume_mean.n * recent_volume_mean.d)
            ELSE Num(1)
        price_break_ma20 ==
            price_break_ma20_of(current_price, ilocNeg(d.MA20, 1))
        recent_high ==
            MaxRange(d.high, ilocFrom(d.high, 20), ilocTo(d.high, 1))
        price_break_high == current_price > recent_high
        macd_golden_cross ==
            macd_golden_cross_le(ilocNeg(d.MACD, 2), ilocNeg(d.MACD_signal, 2),
                                 ilocNeg(d.MACD, 1), ilocNeg(d.MACD_signal, 1))
        rsi_recovery == rsi_recovery_of(ilocNeg(d.RSI, 5), ilocNeg(d.RSI, 1))
        condition1 == Gt(drawdown, Frac(20, 100))
        condition2 == Gt(volume_ratio, Frac(15, 10))
        condition3 == price_break_ma20 \/ price_break_high
        condition4 == macd_golden_cross \/ rsi_recovery
    IN  [drawdown |-> drawdown,
         volume_ratio |-> volume_ratio,
         price_break_ma20 |-> price_break_ma20,
         price_break_high |-> price_break_high,
         macd_golden_cross |-> macd_golden_cross,
         rsi_recovery |-> rsi_recovery,
         condition1 |-> condition1,
         condition2 |-> condition2,
         condition3 |-> condition3,
         condition4 |-> condition4,
         score |->
             base_score_etf(condition1, condition2, condition3, condition4,
                            volume_ratio, price_break_ma20, price_break_high,
                            macd_golden_cross, rsi_recovery)]

\* etf_breakout_analysis.py lines 130-222; the identity and price fields of
\* the dict are left out
check_bottom_breakout_etf(d) ==
    IF d = None \/ len(d) < 60 THEN {None}
    ELSE
    LET v == locals_etf(d)
    IN  {[drawdown |-> dd,
          volume_ratio |-> vr,
          price_break_ma20 |-> v.price_break_ma20,
          price_break_high |-> v.price_break_high,
          macd_golden_cross |-> v.macd_golden_cross,
          rsi_recovery |-> v.rsi_recovery,
          score |-> 10 * v.score,
          condition1 |-> v.condition1,
          condition2 |-> v.condition2,
          condition3 |-> v.condition3,
          condition4 |-> v.condition4,
          all_conditions_met |->
              all_conditions_met_of(v.condition1, v.condition2,
                                    v.condition3, v.condition4)] :
            dd \in RoundSet(v.drawdown, 1000),
            vr \in RoundSet(v.volume_ratio, 100)}

\* industry_breakout_analysis.py lines 128-220: the same statements as
\* etf_breakout_analysis.check_bottom_breakout, under other key names
check_bottom_breakout_industry(d) == check_bottom_breakout_etf(d)

---------------------------------------------------------------------------
(* simple_etf_analysis.py *)

\* Quotients whose divisor carries the guard 1e-8 (x / (y + 1e-8)) are kept
\* as the fraction x / y, which the float lies just below when x > 0 (by
\* less than one part in 10^8, far less than the gap between two distinct
\* fractions of the model); x / (0 + 1e-8) is 0 for x = 0 and beyond every
\* threshold for x >= 1.

\* n / (d + 1e-8) > k
GtGuarded(n, d, k) ==
    IF d = 0 THEN n > 0 ELSE Gt(Frac(n, d), k)

\* n / (d + 1e-8) < k, for k > 0
LtGuarded(n, d, k) ==
    IF d = 0 THEN n = 0 ELSE n = 0 \/ Le(Frac(n, d), k)

\* lines 93-97: rs = gain / (loss + 1e-8); 100 - 100 / (1 + rs).  The
\* fraction kept is the value the float lies just below (exactly 0 when
\* there is no gain)
rsi_value_guarded(gain, loss) ==
    IF isna(gain) \/ isna(loss) THEN NaN
    ELSE IF gain.n = 0 THEN Num(0)
    ELSE Frac(100 * gain.n, gain.n + loss.n)

rsi_column_guarded(close) ==
    LET gain == rolling_mean(gains(close), 14)
        loss == rolling_mean(losses(close), 14)
    IN  [i \in 1..Len(close) |-> rsi_value_guarded(gain[i], loss[i])]

\* lines 84-86: (close - recent_low) / (recent_high - recent_low + 1e-8)
\* over a rolling window of 60; a window whose high equals its low has
\* close = low, and the quotient is exactly 0
price_position_column(d) ==
    [i \in 1..len(d) |->
        IF i < 60 THEN NaN
        ELSE LET recent_high == MaxRange(d.high, i - 59, i)
                 recent_low == MinRange(d.low, i - 59, i)
             IN  IF recent_high = recent_low THEN Num(0)
                 ELSE Frac(d.close[i] - recent_low, recent_high - recent_low)]

\* lines 72-106
calculate_technical_indicators_simple(d) ==
    IF d = None \/ len(d) < 60 THEN d
    ELSE LET macd == macd_column(d.close, 12, 26)
         IN  [d EXCEPT !.MA20 = rolling_mean(d.close, 20),
                       !.price_position = price_position_column(d),
                       !.RSI = rsi_column_guarded(d.close),
                       !.MACD = macd,
                       !.MACD_signal = ewm_mean(macd, 9),
                       !.columns = @ \cup {"MA20", "price_position", "RSI",
                                           "MACD", "MACD_signal"}]

\* line 139 (and etf_analysis.py:143)
macd_golden_lt(prev_macd, prev_signal, latest_macd, latest_signal) ==
    prev_macd < prev_signal /\ latest_macd > latest_signal

\* the label with the medium band starting above 5
strength_of_gap(score) ==
    IF score >= 7 THEN "strong"
    ELSE IF score > 5 THEN "medium"
    ELSE IF score >= 3 THEN "weak"
    ELSE "none"

\* lines 174-182 (and etf_analysis.py:181-188)
strength_of(score) ==
    IF score >= 7 THEN "strong"
    ELSE IF score >= 5 THEN "medium"
    ELSE IF score >= 3 THEN "weak"
    ELSE "none"

\* lines 108-198
analyze_breakout_simple(d) ==
    IF d = None \/ len(d) < 60 THEN {None}
    ELSE
    LET recent_high == MaxRange(d.high, ilocFrom(d.high, 60), len(d))
        recent_low == MinRange(d.low, ilocFrom(d.low, 60), len(d))
        current_price == ilocNeg(d.close, 1)
        drawdown == IF recent_high > 0
                    THEN Frac(recent_high - current_price, recent_high)
                    ELSE Num(0)
        \* sums of the last 5 and of the 20 bars before them
        recent_vol == SumRange(d.volume, ilocFrom(d.volume, 5), len(d))
        prev_vol == SumRange(d.volume, ilocFrom(d.volume, 25),
                             ilocTo(d.volume, 5))
        \* volume_surge = (recent_vol / 5) / (prev_vol / 20 + 1e-8)
        surge_above(k) == GtGuarded(recent_vol * 20, prev_vol * 5, k)
        price_above_ma20 == Gt(Num(current_price), ilocNeg(d.MA20, 1))
        rsi_latest == ilocNeg(d.RSI, 1)
        \* 30 < rsi_value < 70, rsi_value = 50 for a NaN
        rsi_neutral ==
            IF isna(rsi_latest) THEN TRUE
            ELSE Gt(rsi_latest, Num(30)) /\ Le(rsi_latest, Num(70))
        macd_golden ==
            IF len(d) >= 2
            THEN macd_golden_lt(ilocNeg(d.MACD, 2), ilocNeg(d.MACD_signal, 2),
                                ilocNeg(d.MACD, 1), ilocNeg(d.MACD_signal, 1))
            ELSE FALSE
        position == ilocNeg(d.price_position, 1)
        \* latest['price_position'] < 0.3
        low_position == LtGuarded(position.n, position.d, Frac(3, 10))
        score ==
            (IF Gt(drawdown, Frac(2, 10)) THEN 2
             ELSE IF Gt(drawdown, Frac(15, 100)) THEN 1 ELSE 0)
            + (IF low_position THEN 1 ELSE 0)
            + (IF price_above_ma20 THEN 1 ELSE 0)
            + (IF surge_above(Frac(15, 10)) THEN 2
               ELSE IF surge_above(Frac(12, 10)) THEN 1 ELSE 0)
            + (IF rsi_neutral THEN 1 ELSE 0)
            + (IF macd_golden THEN 2 ELSE 0)
    IN  {[drawdown |-> dd,
          above_ma20 |-> price_above_ma20,
          macd_golden |-> macd_golden,
          score |-> 10 * score,
          strength |-> strength_of(score)] :
            dd \in RoundSet(drawdown, 1000)}

---------------------------------------------------------------------------
(* Daily monitor: industry_daily_monitor.py and                             *)
(* industry_daily_monitor_enhanced.py.                                      *)
(*                                                                         *)
(* The monitors run the analysis scripts as subprocesses and read back the *)
(* JSON files they wrote.  A file either does not exist or holds a list of *)
(* result dicts; of each dict the keys the monitors read are kept.         *)
(* Of the dicts the run_* functions return, analysis_time and breakout_*   *)
(* are left out: nothing reads them afterwards.                            *)
(*                                                                         *)
(* A text is the sequence of its characters.  An ASCII character is        *)
(* itself; any other character is written "u" followed by its code point   *)
(* (the comments give the original text).                                  *)
(***************************************************************************)

MaxIndustries == 6
MaxEtfs == 11

\* Instruments the result files are drawn from: <<identifier, name>>.  The
\* files are read back from disk as they are, so one identifier is listed
\* in both universes.
IndustryUniverse ==
    <<
       <<"sh.000008", <<"u4e0a", "u8bc1", "u6750", "u6599">>>>,   \* 上证材料
       <<"sh.000009", <<"u4e0a", "u8bc1", "u5de5", "u4e1a">>>>,   \* 上证工业
       <<"sh.000010", <<"u4e0a", "u8bc1", "u80fd", "u6e90">>>>,   \* 上证能源
       <<"sh.000011", <<"u4e0a", "u8bc1", "u91d1", "u878d">>>>,   \* 上证金融
       <<"sh.000012", <<"u4e0a", "u8bc1", "u533b", "u836f">>>>,   \* 上证医药
       <<"sh.000013", <<"u4e0a", "u8bc1", "u6d88", "u8d39">>>>    \* 上证消费
    >>

EtfUniverse ==
    <<
       <<"sh.000012", <<"u4e0a", "u8bc1", "u533b", "u836f">>>>,   \* 上证医药
       <<"sh.512480", <<"u534a", "u5bfc", "u4f53", "E", "T", "F">>>>,   \* 半导体ETF
       <<"sh.512170", <<"u533b", "u7597", "E", "T", "F">>>>,   \* 医疗ETF
       <<"sh.512690", <<"u9152", "E", "T", "F">>>>,   \* 酒ETF
       <<"sh.512000", <<"u5238", "u5546", "E", "T", "F">>>>,   \* 券商ETF
       <<"sh.516160", <<"u65b0", "u80fd", "u6e90", "E", "T", "F">>>>,   \* 新能源ETF
       <<"sh.159755", <<"u9502", "u7535", "u6c60", "E", "T", "F">>>>,   \* 锂电池ETF
       <<"sh.512290", <<"u751f", "u7269", "u533b", "u836f", "E", "T", "F">>>>,   \* 生物医药ETF
       <<"sh.515050", <<"5", "G", "E", "T", "F">>>>,   \* 5GETF
       <<"sh.515650", <<"u6d88", "u8d39", "5", "0", "E", "T", "F">>>>,   \* 消费50ETF
       <<"sh.512880", <<"u8bc1", "u5238", "E", "T", "F">>>>,   \* 证券ETF
       <<"sh.512710", <<"u519b", "u5de5", "u9f99", "u5934", "E", "T", "F">>>>    \* 军工龙头ETF
    >>

\* scores of the entries of a file, in tenths of a point, by position
\* the integer scores of industry_breakout_analysis and etf_breakout_analysis
ScoreLevels == <<120, 80, 50, 0>>
\* the one-decimal scores of etf_breakout_analysis_fixed
ScoreLevelsFixed == <<100, 85, 60, 55>>
\* <<offset, step>> of the walk through the score levels
ScorePatterns == {<<0, 1>>, <<0, 0>>, <<1, 3>>, <<2, 1>>}
\* first instrument of a file
IndustryStarts == {1, 5}
EtfStarts == {1, 2}
\* what the news search finds: nothing (no API key), three items for every
\* query, or three items for every other query
NewsServices == {"unavailable", "all", "alternate"}
Monitors == {"industry_daily_monitor", "industry_daily_monitor_enhanced"}

pattern_score(levels, pattern, i) == levels[((pattern[1] + (i - 1) * pattern[2]) % Len(levels)) + 1]

cyclic(universe, start, i) == universe[((start + i - 2) % Len(universe)) + 1]

\* industry_breakout_results.json: the dicts industry_breakout_analysis wrote
IndustryFile(n, start, pattern) ==
    [i \in 1..n |->
        LET score == pattern_score(ScoreLevels, pattern, i)
        IN  [industry_code |-> cyclic(IndustryUniverse, start, i)[1],
             industry_name |-> cyclic(IndustryUniverse, start, i)[2],
             score |-> score,
             all_conditions_met |-> (score >= 100 /\ i % 2 = 1)]]

\* etf_breakout_results.json: the dicts etf_breakout_analysis wrote
EtfFile(n, start, pattern) ==
    [i \in 1..n |->
        LET score == pattern_score(ScoreLevels, pattern, i)
        IN  [etf_code |-> cyclic(EtfUniverse, start, i)[1],
             etf_name |-> cyclic(EtfUniverse, start, i)[2],
             score |-> score,
             all_conditions_met |-> (score >= 100 /\ i % 2 = 1)]]

\* etf_breakout_results_fixed.json: the dicts etf_breakout_analysis_fixed wrote
EtfFileFixed(n, start, pattern) ==
    [i \in 1..n |->
        LET score == pattern_score(ScoreLevelsFixed, pattern, i)
        IN  [etf_code |-> cyclic(EtfUniverse, start, i)[1],
             etf_name |-> cyclic(EtfUniverse, start, i)[2],
             score |-> score,
             all_conditions_met |-> (score >= 60 /\ i % 2 = 1),
             data_days |-> IF i % 3 = 0 THEN 25 ELSE 60]]

IndustryFiles ==
    {[exists |-> FALSE]} \cup {[exists |-> TRUE, results |-> IndustryFile(n, start, pattern)] :
                    n \in 0..MaxIndustries, start \in IndustryStarts, pattern \in ScorePatterns}

EtfFiles ==
    {[exists |-> FALSE]} \cup {[exists |-> TRUE, results |-> EtfFile(n, start, pattern)] :
                    n \in 0..MaxEtfs, start \in EtfStarts, pattern \in ScorePatterns}

EtfFilesFixed ==
    {[exists |-> FALSE]} \cup {[exists |-> TRUE, results |-> EtfFileFixed(n, start, pattern)] :
                    n \in 0..MaxEtfs, start \in EtfStarts, pattern \in ScorePatterns}

---------------------------------------------------------------------------
(* Python built-ins the monitors use *)

\* dict.get(key, default)
get(d, key, default) == IF key \in DOMAIN d THEN d[key] ELSE default

\* d[key] = value
setitem(d, key, value) == [k \in DOMAIN d \cup {key} |-> IF k = key THEN value ELSE d[k]]

\* s[:k]
take(s, k) == SubSeq(s, 1, Min(k, Len(s)))

\* x goes in front of the elements of its own score
insert_before_ties(sorted, x) ==
    LET k == Cardinality({i \in 1..Len(sorted) : get(sorted[i], "score", 0) > get(x, "score", 0)})
    IN  SubSeq(sorted, 1, k) \o <<x>> \o SubSeq(sorted, k + 1, Len(sorted))

\* one step of a stable descending sort: x goes behind every element whose
\* score is not smaller
insert_by_score(sorted, x) ==
    LET k == Cardinality({i \in 1..Len(sorted) : get(sorted[i], "score", 0) >= get(x, "score", 0)})
    IN  SubSeq(sorted, 1, k) \o <<x>> \o SubSeq(sorted, k + 1, Len(sorted))

\* sorted(s, key=lambda x: x.get('score', 0), reverse=True): stable, so
\* entries of equal score keep their order
RECURSIVE sort_by_score(_)
sort_by_score(s) ==
    IF s = <<>> THEN <<>>
    ELSE insert_by_score(sort_by_score(SubSeq(s, 1, Len(s) - 1)), s[Len(s)])

uppercase == <<"A", "B", "C", "D", "E", "F", "G", "H", "I", "J", "K", "L", "M", "N", "O", "P", "Q", "R", "S", "T", "U", "V", "W", "X", "Y", "Z">>
lowercase == <<"a", "b", "c", "d", "e", "f", "g", "h", "i", "j", "k", "l", "m", "n", "o", "p", "q", "r", "s", "t", "u", "v", "w", "x", "y", "z">>

\* str.lower()
lower(text) ==
    [i \in 1..Len(text) |->
        IF \E k \in 1..Len(uppercase) : uppercase[k] = text[i]
        THEN lowercase[CHOOSE k \in 1..Len(uppercase) : uppercase[k] = text[i]]
        ELSE text[i]]

\* keyword in text
contains(text, keyword) ==
    \E i \in 1..(Len(text) - Len(keyword) + 1) : SubSeq(text, i, i + Len(keyword) - 1) = keyword

---------------------------------------------------------------------------
(* run_industry_breakout_analysis, run_etf_breakout_analysis[_enhanced] *)

run_industry_breakout_analysis(file) ==
    IF file.exists /\ file.results # <<>>
    THEN [total_analyzed |-> Len(file.results),
          top_industries |-> take(sort_by_score(file.results), 5),
          all_results |-> sort_by_score(file.results),
          status |-> "success"]
    ELSE [top_industries |-> <<>>, status |-> "no_breakouts"]

run_etf_breakout_analysis(file) ==
    IF file.exists /\ file.results # <<>>
    THEN [total_analyzed |-> Len(file.results),
          top_etfs |-> take(sort_by_score(file.results), 5),
          all_results |-> sort_by_score(file.results),
          status |-> "success"]
    ELSE [top_etfs |-> <<>>, status |-> "no_breakouts"]

\* (etf_breakout_analysis_fixed.py is part of the repository, so the fallback
\* to run_etf_breakout_analysis_original is not taken)
run_etf_breakout_analysis_enhanced(file) ==
    IF file.exists /\ file.results # <<>>
    THEN [total_analyzed |-> Len(file.results),
          top_etfs |-> take(sort_by_score(file.results), 10),
          all_results |-> sort_by_score(file.results),
          status |-> "success"]
    ELSE [top_etfs |-> <<>>, status |-> "no_breakouts"]

---------------------------------------------------------------------------
(* News search.  The outcome of the i-th query is the environment's. *)

found_news_always(service, i) == <<"news 1", "news 2", "news 3">>

found_news(service, i) ==
    IF service = "all" \/ (service = "alternate" /\ i % 2 = 1)
    THEN <<"news 1", "news 2", "news 3">>
    ELSE <<>>

\* industry_daily_monitor.search_news_for_industry
search_news_for_industry(service, i) == take(found_news(service, i), 3)

\* industry_daily_monitor_enhanced.search_news_for_item
search_news_for_item(service, i) == take(found_news(service, i), 2)

---------------------------------------------------------------------------
(* categorize_etf *)

category_map ==
    <<
       <<<<"u534a", "u5bfc", "u4f53">>, <<"u534a", "u5bfc", "u4f53", "/", "u82af", "u7247">>>>,   \* 半导体 -> 半导体/芯片
       <<<<"u82af", "u7247">>, <<"u534a", "u5bfc", "u4f53", "/", "u82af", "u7247">>>>,   \* 芯片 -> 半导体/芯片
       <<<<"u533b", "u836f">>, <<"u533b", "u836f", "u533b", "u7597">>>>,   \* 医药 -> 医药医疗
       <<<<"u533b", "u7597">>, <<"u533b", "u836f", "u533b", "u7597">>>>,   \* 医疗 -> 医药医疗
       <<<<"u5065", "u5eb7">>, <<"u533b", "u836f", "u533b", "u7597">>>>,   \* 健康 -> 医药医疗
       <<<<"u521b", "u65b0", "u836f">>, <<"u533b", "u836f", "u533b", "u7597">>>>,   \* 创新药 -> 医药医疗
       <<<<"u751f", "u7269", "u533b", "u836f">>, <<"u533b", "u836f", "u533b", "u7597">>>>,   \* 生物医药 -> 医药医疗
       <<<<"u5668", "u68b0">>, <<"u533b", "u836f", "u533b", "u7597">>>>,   \* 器械 -> 医药医疗
       <<<<"u65b0", "u80fd", "u6e90">>, <<"u65b0", "u80fd", "u6e90">>>>,   \* 新能源 -> 新能源
       <<<<"u5149", "u4f0f">>, <<"u65b0", "u80fd", "u6e90">>>>,   \* 光伏 -> 新能源
       <<<<"u7535", "u6c60">>, <<"u65b0", "u80fd", "u6e90">>>>,   \* 电池 -> 新能源
       <<<<"u9502", "u7535", "u6c60">>, <<"u65b0", "u80fd", "u6e90">>>>,   \* 锂电池 -> 新能源
       <<<<"u78b3", "u4e2d", "u548c">>, <<"u65b0", "u80fd", "u6e90">>>>,   \* 碳中和 -> 新能源
       <<<<"u6d88", "u8d39">>, <<"u6d88", "u8d39">>>>,   \* 消费 -> 消费
       <<<<"u9152">>, <<"u6d88", "u8d39">>>>,   \* 酒 -> 消费
       <<<<"u98df", "u54c1">>, <<"u6d88", "u8d39">>>>,   \* 食品 -> 消费
       <<<<"u996e", "u6599">>, <<"u6d88", "u8d39">>>>,   \* 饮料 -> 消费
       <<<<"u5bb6", "u7535">>, <<"u6d88", "u8d39">>>>,   \* 家电 -> 消费
       <<<<"u79d1", "u6280">>, <<"u79d1", "u6280">>>>,   \* 科技 -> 科技
       <<<<"u4fe1", "u606f">>, <<"u79d1", "u6280">>>>,   \* 信息 -> 科技
       <<<<"5", "g">>, <<"u79d1", "u6280">>>>,   \* 5g -> 科技
       <<<<"u901a", "u4fe1">>, <<"u79d1", "u6280">>>>,   \* 通信 -> 科技
       <<<<"u4eba", "u5de5">>, <<"u79d1", "u6280">>>>,   \* 人工 -> 科技
       <<<<"u4f20", "u5a92">>, <<"u4f20", "u5a92", "u5a31", "u4e50">>>>,   \* 传媒 -> 传媒娱乐
       <<<<"u6e38", "u620f">>, <<"u4f20", "u5a92", "u5a31", "u4e50">>>>,   \* 游戏 -> 传媒娱乐
       <<<<"u5f71", "u89c6">>, <<"u4f20", "u5a92", "u5a31", "u4e50">>>>,   \* 影视 -> 传媒娱乐
       <<<<"u5a31", "u4e50">>, <<"u4f20", "u5a92", "u5a31", "u4e50">>>>,   \* 娱乐 -> 传媒娱乐
       <<<<"u91d1", "u878d">>, <<"u91d1", "u878d">>>>,   \* 金融 -> 金融
       <<<<"u8bc1", "u5238">>, <<"u91d1", "u878d">>>>,   \* 证券 -> 金融
       <<<<"u94f6", "u884c">>, <<"u91d1", "u878d">>>>,   \* 银行 -> 金融
       <<<<"u4fdd", "u9669">>, <<"u91d1", "u878d">>>>,   \* 保险 -> 金融
       <<<<"u519b", "u5de5">>, <<"u519b", "u5de5">>>>,   \* 军工 -> 军工
       <<<<"u6709", "u8272">>, <<"u5468", "u671f", "u8d44", "u6e90">>>>,   \* 有色 -> 周期资源
       <<<<"u7164", "u70ad">>, <<"u5468", "u671f", "u8d44", "u6e90">>>>,   \* 煤炭 -> 周期资源
       <<<<"u94a2", "u94c1">>, <<"u5468", "u671f", "u8d44", "u6e90">>>>,   \* 钢铁 -> 周期资源
       <<<<"u8d44", "u6e90">>, <<"u5468", "u671f", "u8d44", "u6e90">>>>,   \* 资源 -> 周期资源
       <<<<"u5730", "u4ea7">>, <<"u57fa", "u5efa", "u5730", "u4ea7">>>>,   \* 地产 -> 基建地产
       <<<<"u57fa", "u5efa">>, <<"u57fa", "u5efa", "u5730", "u4ea7">>>>,   \* 基建 -> 基建地产
       <<<<"u5efa", "u7b51">>, <<"u57fa", "u5efa", "u5730", "u4ea7">>>>,   \* 建筑 -> 基建地产
       <<<<"u5efa", "u6750">>, <<"u57fa", "u5efa", "u5730", "u4ea7">>>>,   \* 建材 -> 基建地产
       <<<<"u73af", "u4fdd">>, <<"u73af", "u4fdd">>>>,   \* 环保 -> 环保
       <<<<"u65c5", "u6e38">>, <<"u65c5", "u6e38">>>>,   \* 旅游 -> 旅游
       <<<<"u6559", "u80b2">>, <<"u6559", "u80b2">>>>,   \* 教育 -> 教育
       <<<<"u4f53", "u80b2">>, <<"u4f53", "u80b2">>>>    \* 体育 -> 体育
    >>

\* 其他
CATEGORY_OTHER == <<"u5176", "u4ed6">>

\* 行业指数
CATEGORY_INDUSTRY_INDEX == <<"u884c", "u4e1a", "u6307", "u6570">>

\* the last matching entry of the table instead of the first
categorize_etf_last_match(etf_name) ==
    LET etf_name_lower == lower(etf_name)
        hits == {i \in 1..Len(category_map) : contains(etf_name_lower, category_map[i][1])}
    IN  IF hits = {} THEN CATEGORY_OTHER
        ELSE category_map[CHOOSE i \in hits : \A j \in hits : i >= j][2]

categorize_etf(etf_name) ==
    LET etf_name_lower == lower(etf_name)
        hits == {i \in 1..Len(category_map) : contains(etf_name_lower, category_map[i][1])}
    IN  IF hits = {} THEN CATEGORY_OTHER
        ELSE category_map[CHOOSE i \in hits : \A j \in hits : i <= j][2]

---------------------------------------------------------------------------
(* industry_daily_monitor.combine_results *)

\* f'行业{idx+1}' and f'ETF{idx+1}', idx the position counted from 0
digits == <<"1", "2", "3", "4", "5">>
default_industry_name(i) == <<"u884c", "u4e1a", digits[i]>>
default_etf_name(i) == <<"E", "T", "F", digits[i]>>

top_industries_basic(industry_dict, service) ==
    IF "top_industries" \in DOMAIN industry_dict
    THEN LET top == take(industry_dict.top_industries, 5)
         IN  [i \in 1..Len(top) |->
                 IF get(top[i], "industry_name", get(top[i], "name", <<>>)) # <<>>
                 THEN setitem(top[i], "news", search_news_for_industry(service, i))
                 ELSE top[i]]
    ELSE <<>>

top_etfs_basic(etf_dict) ==
    IF "top_etfs" \in DOMAIN etf_dict THEN take(etf_dict.top_etfs, 5) ELSE <<>>

industry_breakout_basic(industry, i) ==
    LET score == get(industry, "score", 0)
        bonus == IF "news" \in DOMAIN industry /\ Len(industry.news) > 0 THEN 5 ELSE 0
    IN  [type |-> "industry",
         name |-> get(industry, "industry_name", get(industry, "name", default_industry_name(i))),
         code |-> get(industry, "industry_code", get(industry, "code", "")),
         score |-> score + bonus,
         breakout_score |-> score + bonus,
         news_count |-> Len(get(industry, "news", <<>>)),
         all_conditions_met |-> get(industry, "all_conditions_met", FALSE)]

etf_breakout_basic(etf, i) ==
    [type |-> "etf",
     name |-> get(etf, "etf_name", get(etf, "name", default_etf_name(i))),
     code |-> get(etf, "etf_code", get(etf, "code", "")),
     score |-> get(etf, "score", 0),
     breakout_score |-> get(etf, "score", 0),
     news_count |-> 0,
     all_conditions_met |-> get(etf, "all_conditions_met", FALSE)]

combine_results_basic(industry_dict, etf_dict, service) ==
    LET top_industries == top_industries_basic(industry_dict, service)
        top_etfs == top_etfs_basic(etf_dict)
        all_breakouts ==
            [i \in 1..Len(top_industries) |-> industry_breakout_basic(top_industries[i], i)]
            \o [i \in 1..Len(top_etfs) |-> etf_breakout_basic(top_etfs[i], i)]
    IN  [status |-> "success",
         top_industries |-> top_industries,
         top_etfs |-> top_etfs,
         top_recommendations |-> take(sort_by_score(all_breakouts), 3)]

---------------------------------------------------------------------------
(* industry_daily_monitor_enhanced.combine_results *)

top_industries_enhanced(industry_dict, service) ==
    IF "top_industries" \in DOMAIN industry_dict
    THEN LET top == take(industry_dict.top_industries, 5)
         IN  [i \in 1..Len(top) |->
                 IF get(top[i], "industry_name", get(top[i], "name", <<>>)) # <<>>
                 THEN setitem(setitem(top[i], "news", search_news_for_item(service, i)),
                              "category", CATEGORY_INDUSTRY_INDEX)
                 ELSE top[i]]
    ELSE <<>>

\* the news queries for the ETFs follow those for the industries
top_etfs_enhanced(etf_dict, service, asked) ==
    IF "top_etfs" \in DOMAIN etf_dict
    THEN LET top == take(etf_dict.top_etfs, 15)
         IN  [i \in 1..Len(top) |->
                 LET etf_name == get(top[i], "etf_name", get(top[i], "name", <<>>))
                     news == IF get(top[i], "score", 0) >= 60
                             THEN search_news_for_item(service, asked + i)
                             ELSE <<>>
                 IN  setitem(setitem(top[i], "category", categorize_etf(etf_name)), "news", news)]
    ELSE <<>>

\* the per-category statistics after the ETFs of top_etfs were added one by one
RECURSIVE etf_categories_of(_)
etf_categories_of(top_etfs) ==
    IF top_etfs = <<>> THEN <<>>
    ELSE LET before == etf_categories_of(SubSeq(top_etfs, 1, Len(top_etfs) - 1))
             etf == top_etfs[Len(top_etfs)]
             data == IF etf.category \in DOMAIN before
                     THEN before[etf.category]
                     ELSE [count |-> 0, total_score |-> 0, top_etfs |-> <<>>]
             updated == [count |-> data.count + 1,
                         total_score |-> data.total_score + get(etf, "score", 0),
                         top_etfs |-> take(sort_by_score(Append(data.top_etfs, etf)), 3)]
         IN  [c \in DOMAIN before \cup {etf.category} |->
                 IF c = etf.category THEN updated ELSE before[c]]

\* data['avg_score'] = data['total_score'] / data['count']
with_avg_score(etf_categories) ==
    [c \in DOMAIN etf_categories |->
        IF etf_categories[c].count > 0
        THEN setitem(etf_categories[c], "avg_score",
                     Frac(etf_categories[c].total_score, etf_categories[c].count))
        ELSE etf_categories[c]]

industry_candidate_bonus_two(industry, i) ==
    LET score == get(industry, "score", 0)
        news_bonus == IF "news" \in DOMAIN industry /\ Len(industry.news) > 0 THEN 20 ELSE 0
    IN  [type |-> "industry",
         name |-> get(industry, "industry_name", get(industry, "name", default_industry_name(i))),
         code |-> get(industry, "industry_code", get(industry, "code", "")),
         score |-> Min(100, score + news_bonus),
         original_score |-> score,
         category |-> CATEGORY_INDUSTRY_INDEX,
         news_count |-> Len(get(industry, "news", <<>>)),
         all_conditions_met |-> get(industry, "all_conditions_met", FALSE),
         data_days |-> get(industry, "data_days", "N/A")]

industry_candidate(industry, i) ==
    LET score == get(industry, "score", 0)
        news_bonus == IF "news" \in DOMAIN industry /\ Len(industry.news) > 0 THEN 5 ELSE 0
    IN  [type |-> "industry",
         name |-> get(industry, "industry_name", get(industry, "name", default_industry_name(i))),
         code |-> get(industry, "industry_code", get(industry, "code", "")),
         score |-> Min(100, score + news_bonus),
         original_score |-> score,
         category |-> CATEGORY_INDUSTRY_INDEX,
         news_count |-> Len(get(industry, "news", <<>>)),
         all_conditions_met |-> get(industry, "all_conditions_met", FALSE),
         data_days |-> get(industry, "data_days", "N/A")]

etf_candidate(etf) ==
    LET score == get(etf, "score", 0)
        news_bonus == IF "news" \in DOMAIN etf /\ Len(etf.news) > 0 THEN 5 ELSE 0
    IN  [type |-> "etf",
         name |-> get(etf, "etf_name", get(etf, "name", <<>>)),
         code |-> get(etf, "etf_code", get(etf, "code", "")),
         score |-> Min(100, score + news_bonus),
         original_score |-> score,
         category |-> get(etf, "category", CATEGORY_OTHER),
         news_count |-> Len(get(etf, "news", <<>>)),
         all_conditions_met |-> get(etf, "all_conditions_met", FALSE),
         data_days |-> get(etf, "data_days", "N/A")]

all_candidates_of(top_industries, top_etfs) ==
    LET top_etfs_sorted == take(sort_by_score(top_etfs), 10)
    IN  sort_by_score(
            [i \in 1..Len(top_industries) |-> industry_candidate(top_industries[i], i)]
            \o [i \in 1..Len(top_etfs_sorted) |-> etf_candidate(top_etfs_sorted[i])])

category_recommendations_of(all_candidates) ==
    [c \in {all_candidates[i].category : i \in 1..Len(all_candidates)} |->
        take(SelectSeq(all_candidates, LAMBDA x : x.category = c), 2)]

combine_results_enhanced(industry_dict, etf_dict, service) ==
    LET top_industries == top_industries_enhanced(industry_dict, service)
        top_etfs == top_etfs_enhanced(etf_dict, service, Len(top_industries))
        all_candidates == all_candidates_of(top_industries, top_etfs)
    IN  [status |-> "success",
         top_industries |-> top_industries,
         top_etfs |-> top_etfs,
         etf_categories |-> with_avg_score(etf_categories_of(top_etfs)),
         top_recommendations |-> take(all_candidates, 5),
         category_recommendations |-> category_recommendations_of(all_candidates)]

---------------------------------------------------------------------------
(* One run of an analysis script on one fetched history *)

Init ==
    /\ logged_in = FALSE
    /\ pc = "fetched"
    /\ script = "none"
    /\ df \in Inputs
    /\ result = None
    /\ industry_file = [exists |-> FALSE]
    /\ etf_file = [exists |-> FALSE]
    /\ industry_result = None
    /\ etf_result = None
    /\ combined = None
    /\ news_service = "unknown"
    /\ idx = 0
    /\ fetched = <<>>
    /\ results = <<>>
    /\ categories = None
    /\ file_run = "none"
    /\ classified_name = <<>>
    /\ classified_as = None

\* etf_breakout_analysis_fixed.main, lines 401-405
CalculateIndicatorsFixed ==
    /\ pc = "fetched"
    /\ df # None
    /\ pc' = "indicators"
    /\ script' = "fixed"
    /\ df' = calculate_technical_indicators_fixed(df)
    /\ UNCHANGED <<logged_in, result, monitor_vars, batch_vars, classifier_vars>>

\* etf_breakout_analysis_fixed.main, line 408
CheckBottomBreakoutFixed ==
    /\ pc = "indicators"
    /\ script = "fixed"
    /\ pc' = "done"
    /\ result' \in check_bottom_breakout_fixed(df)
    /\ UNCHANGED <<logged_in, script, df, monitor_vars, batch_vars, classifier_vars>>

\* etf_breakout_analysis.main, lines 252-254
CalculateIndicatorsEtf ==
    /\ pc = "fetched"
    /\ df # None
    /\ pc' = "indicators"
    /\ script' = "etf"
    /\ df' = calculate_technical_indicators_etf(df)
    /\ UNCHANGED <<logged_in, result, monitor_vars, batch_vars, classifier_vars>>

\* etf_breakout_analysis.main, line 257
CheckBottomBreakoutEtf ==
    /\ pc = "indicators"
    /\ script = "etf"
    /\ pc' = "done"
    /\ result' \in check_bottom_breakout_etf(df)
    /\ UNCHANGED <<logged_in, script, df, monitor_vars, batch_vars, classifier_vars>>

\* industry_breakout_analysis.main, lines 248-255
CalculateIndicatorsIndustry ==
    /\ pc = "fetched"
    /\ df # None
    /\ len(df) > 0
    /\ pc' = "indicators"
    /\ script' = "industry"
    /\ df' = calculate_technical_indicators_industry(df)
    /\ UNCHANGED <<logged_in, result, monitor_vars, batch_vars, classifier_vars>>

\* industry_breakout_analysis.main, line 262
CheckBottomBreakoutIndustry ==
    /\ pc = "indicators"
    /\ script = "industry"
    /\ pc' = "done"
    /\ result' \in check_bottom_breakout_industry(df)
    /\ UNCHANGED <<logged_in, script, df, monitor_vars, batch_vars, classifier_vars>>

\* simple_etf_analysis.main, lines 297-303
CalculateIndicatorsSimple ==
    /\ pc = "fetched"
    /\ df # None
    /\ len(df) >= 60
    /\ pc' = "indicators"
    /\ script' = "simple"
    /\ df' = calculate_technical_indicators_simple(df)
    /\ UNCHANGED <<logged_in, result, monitor_vars, batch_vars, classifier_vars>>

\* simple_etf_analysis.main, line 306
AnalyzeBreakoutSimple ==
    /\ pc = "indicators"
    /\ script = "simple"
    /\ pc' = "done"
    /\ result' \in analyze_breakout_simple(df)
    /\ UNCHANGED <<logged_in, script, df, monitor_vars, batch_vars, classifier_vars>>

Next ==
    \/ CalculateIndicatorsFixed
    \/ CheckBottomBreakoutFixed
    \/ CalculateIndicatorsEtf
    \/ CheckBottomBreakoutEtf
    \/ CalculateIndicatorsIndustry
    \/ CheckBottomBreakoutIndustry
    \/ CalculateIndicatorsSimple
    \/ AnalyzeBreakoutSimple

Spec == Init /\ [][Next]_vars

\* combine_results annotates the dicts of the top list in place; all_results
\* holds the same dicts, the top list being its head
annotated_in_place(dict, key, top) ==
    IF "all_results" \in DOMAIN dict
    THEN [dict EXCEPT ![key] = top,
                      !.all_results = top \o SubSeq(@, Len(top) + 1, Len(@))]
    ELSE [dict EXCEPT ![key] = top]

---------------------------------------------------------------------------
(* One run of a daily monitor on the result files of the analysis scripts *)

InitCombine ==
    /\ logged_in = FALSE
    /\ pc = "start"
    /\ script \in Monitors
    /\ df = None
    /\ result = None
    /\ industry_file \in IndustryFiles
    /\ etf_file \in (IF script = "industry_daily_monitor" THEN EtfFiles ELSE EtfFilesFixed)
    /\ industry_result = None
    /\ etf_result = None
    /\ combined = None
    /\ news_service = "unknown"
    /\ idx = 0
    /\ fetched = <<>>
    /\ results = <<>>
    /\ categories = None
    /\ file_run = "none"
    /\ classified_name = <<>>
    /\ classified_as = None

\* industry_daily_monitor.main, line 317, and
\* industry_daily_monitor_enhanced.main, line 503
RunIndustryBreakoutAnalysis ==
    /\ pc = "start"
    /\ pc' = "industry_done"
    /\ industry_result' = run_industry_breakout_analysis(industry_file)
    /\ UNCHANGED <<script, df, result, industry_file, etf_file, etf_result, combined, news_service>>
    /\ UNCHANGED <<logged_in, batch_vars, classifier_vars>>

\* industry_daily_monitor.main, line 318
RunEtfBreakoutAnalysis ==
    /\ pc = "industry_done"
    /\ script = "industry_daily_monitor"
    /\ pc' = "etf_done"
    /\ etf_result' = run_etf_breakout_analysis(etf_file)
    /\ UNCHANGED <<script, df, result, industry_file, etf_file, industry_result, combined, news_service>>
    /\ UNCHANGED <<logged_in, batch_vars, classifier_vars>>

\* industry_daily_monitor_enhanced.main, line 506
RunEtfBreakoutAnalysisEnhanced ==
    /\ pc = "industry_done"
    /\ script = "industry_daily_monitor_enhanced"
    /\ pc' = "etf_done"
    /\ etf_result' = run_etf_breakout_analysis_enhanced(etf_file)
    /\ UNCHANGED <<script, df, result, industry_file, etf_file, industry_result, combined, news_service>>
    /\ UNCHANGED <<logged_in, batch_vars, classifier_vars>>

\* industry_daily_monitor.main, line 321; the dicts of top_industries are
\* annotated in place, so industry_result sees the news too
CombineResults ==
    /\ pc = "etf_done"
    /\ script = "industry_daily_monitor"
    /\ pc' = "combined"
    /\ \E service \in NewsServices :
          /\ news_service' = service
          /\ combined' = combine_results_basic(industry_result, etf_result, service)
          /\ industry_result' = annotated_in_place(industry_result, "top_industries", combined'.top_industries)
    /\ UNCHANGED <<script, df, result, industry_file, etf_file, etf_result>>
    /\ UNCHANGED <<logged_in, batch_vars, classifier_vars>>

\* industry_daily_monitor_enhanced.main, line 510; the dicts of both top
\* lists are annotated in place
CombineResultsEnhanced ==
    /\ pc = "etf_done"
    /\ script = "industry_daily_monitor_enhanced"
    /\ pc' = "combined"
    /\ \E service \in NewsServices :
          /\ news_service' = service
          /\ combined' = combine_results_enhanced(industry_result, etf_result, service)
          /\ industry_result' = annotated_in_place(industry_result, "top_industries", combined'.top_industries)
          /\ etf_result' = annotated_in_place(etf_result, "top_etfs", combined'.top_etfs)
    /\ UNCHANGED <<script, df, result, industry_file, etf_file>>
    /\ UNCHANGED <<logged_in, batch_vars, classifier_vars>>

NextCombine ==
    \/ RunIndustryBreakoutAnalysis
    \/ RunEtfBreakoutAnalysis
    \/ RunEtfBreakoutAnalysisEnhanced
    \/ CombineResults
    \/ CombineResultsEnhanced

SpecCombine == InitCombine /\ [][NextCombine]_vars

---------------------------------------------------------------------------
(* One run of industry_daily_monitor_enhanced with                         *)
(* etf_breakout_analysis_fixed.py as its subprocess: the batch loop of the  *)
(* script's main, the ways the subprocess can end, and the read-back of     *)
(* etf_breakout_results_fixed.json.                                         *)

\* lines 20-93, ALL_ETFS = {**INDUSTRY_ETFS, **SEGMENT_ETFS}: three of its
\* entries, in the order of the dict
ALL_ETFS ==
    <<
       <<"sh.512170", <<"u533b", "u7597", "E", "T", "F">>>>,   \* 医疗ETF
       <<"sh.512290", <<"u751f", "u7269", "u533b", "u836f", "E", "T", "F">>>>,   \* 生物医药ETF
       <<"sh.512000", <<"u5238", "u5546", "E", "T", "F">>>>    \* 券商ETF
    >>

\* histories get_etf_data can return: too short for the full assessment,
\* a flat one, and a fall with a breakout on the last bar
Histories ==
    {Bars(10, 1000, 0, 15, 0, <<100, 150>>),
     Bars(30, 1000, 0, 0, 5, <<100, 100>>),
     Bars(60, 1000, -10, 250, 0, <<100, 250>>)}

\* lines 127-163: the ways the query of get_etf_data can end: an error code,
\* no rows, an exception
FetchFailures ==
    {[ok |-> FALSE, why |-> why] : why \in {"error_code", "no_rows", "exception"}}

\* lines 127-163: the query returns rows
FetchSuccesses == {[ok |-> TRUE, rows |-> rows] : rows \in Histories}

\* lines 127-163: None on a failure, the DataFrame of the rows otherwise
get_etf_data(outcome) == IF outcome.ok THEN outcome.rows ELSE None

\* lines 294-296 and 357-359: the dict carries the identity of its instrument
with_identity(assessment, name, code) ==
    IF assessment = None THEN None
    ELSE setitem(setitem(assessment, "etf_name", name), "etf_code", code)

\* with the list emptied where the fetch failed
appended_or_cleared(list, data, assessment) ==
    IF data # None /\ assessment # None THEN Append(list, assessment) ELSE <<>>

\* lines 401-411: the list of results after one pass of the loop body
appended(list, data, assessment) ==
    IF data # None /\ assessment # None THEN Append(list, assessment) ELSE list

\* the if / elif chain of lines 483-506: <<keywords, category>>
main_category_rules ==
    <<
       <<{<<"u534a", "u5bfc", "u4f53">>, <<"u82af", "u7247">>}, <<"u534a", "u5bfc", "u4f53", "/", "u82af", "u7247">>>>,   \* 半导体 / 芯片 -> 半导体/芯片
       <<{<<"u533b", "u836f">>, <<"u533b", "u7597">>, <<"u5065", "u5eb7">>}, <<"u533b", "u836f", "u533b", "u7597">>>>,   \* 医药 / 医疗 / 健康 -> 医药医疗
       <<{<<"u65b0", "u80fd", "u6e90">>, <<"u5149", "u4f0f">>, <<"u7535", "u6c60">>}, <<"u65b0", "u80fd", "u6e90">>>>,   \* 新能源 / 光伏 / 电池 -> 新能源
       <<{<<"u6d88", "u8d39">>, <<"u9152">>, <<"u98df", "u54c1">>}, <<"u6d88", "u8d39">>>>,   \* 消费 / 酒 / 食品 -> 消费
       <<{<<"u79d1", "u6280">>, <<"u4fe1", "u606f">>, <<"u4eba", "u5de5">>, <<"5", "G">>}, <<"u79d1", "u6280">>>>,   \* 科技 / 信息 / 人工 / 5G -> 科技
       <<{<<"u91d1", "u878d">>, <<"u8bc1", "u5238">>, <<"u94f6", "u884c">>, <<"u4fdd", "u9669">>}, <<"u91d1", "u878d">>>>,   \* 金融 / 证券 / 银行 / 保险 -> 金融
       <<{<<"u4f20", "u5a92">>, <<"u6e38", "u620f">>, <<"u5f71", "u89c6">>}, <<"u4f20", "u5a92", "u5a31", "u4e50">>>>,   \* 传媒 / 游戏 / 影视 -> 传媒娱乐
       <<{<<"u519b", "u5de5">>}, <<"u519b", "u5de5">>>>,   \* 军工 -> 军工
       <<{<<"u6709", "u8272">>, <<"u7164", "u70ad">>, <<"u94a2", "u94c1">>}, <<"u5468", "u671f", "u8d44", "u6e90">>>>,   \* 有色 / 煤炭 / 钢铁 -> 周期资源
       <<{<<"u5730", "u4ea7">>, <<"u57fa", "u5efa">>}, <<"u57fa", "u5efa", "u5730", "u4ea7">>>>,   \* 地产 / 基建 -> 基建地产
       <<{<<"u73af", "u4fdd">>, <<"u78b3", "u4e2d", "u548c">>}, <<"u73af", "u4fdd">>>>    \* 环保 / 碳中和 -> 环保
    >>

\* lines 483-506: the category of the first rule one of whose keywords is in
\* the name (the name is not lower-cased here)
main_category(etf_name) ==
    LET hits == {i \in 1..Len(main_category_rules) :
                    \E keyword \in main_category_rules[i][1] : contains(etf_name, keyword)}
    IN  IF hits = {} THEN CATEGORY_OTHER
        ELSE main_category_rules[CHOOSE i \in hits : \A j \in hits : i <= j][2]

\* the buckets without the one of the unmatched names
main_categories_matched_only(list) ==
    LET cats == {main_category(list[i].etf_name) : i \in 1..Len(list)} \ {CATEGORY_OTHER}
    IN  [cat \in cats |-> SelectSeq(list, LAMBDA r : main_category(r.etf_name) = cat)]

\* lines 477-510: categories[cat] is the list of the results of the category
main_categories(list) ==
    LET cats == {main_category(list[i].etf_name) : i \in 1..Len(list)}
    IN  [cat \in cats |-> SelectSeq(list, LAMBDA r : main_category(r.etf_name) = cat)]

\* industry_breakout_results.json when the monitor starts
RunIndustryFiles ==
    {[exists |-> FALSE]} \cup
    {[exists |-> TRUE, results |-> IndustryFile(2, 1, pattern)] : pattern \in ScorePatterns}

\* etf_breakout_results_fixed.json when the monitor starts: absent, or left
\* by an earlier run
EarlierEtfFile == [exists |-> TRUE, results |-> EtfFileFixed(2, 2, <<0, 1>>)]

\* industry_daily_monitor_enhanced.run_etf_breakout_analysis_enhanced,
\* lines 119-125
run_etf_error == [top_etfs |-> <<>>, status |-> "error"]

InitRun ==
    /\ logged_in = FALSE
    /\ pc = "start"
    /\ script = "industry_daily_monitor_enhanced"
    /\ df = None
    /\ result = None
    /\ industry_file \in RunIndustryFiles
    /\ etf_file \in {[exists |-> FALSE], EarlierEtfFile}
    /\ file_run = (IF etf_file.exists THEN "earlier" ELSE "none")
    /\ industry_result = None
    /\ etf_result = None
    /\ combined = None
    /\ news_service = "unknown"
    /\ idx = 0
    /\ fetched = <<>>
    /\ results = <<>>
    /\ categories = None
    /\ classified_name = <<>>
    /\ classified_as = None

\* industry_daily_monitor_enhanced, lines 83-84: subprocess.run starts the
\* script
StartEtfScript ==
    /\ pc = "industry_done"
    /\ pc' = "script_login"
    /\ UNCHANGED <<logged_in, script, df, result, monitor_vars, batch_vars, classifier_vars>>

\* lines 86-87: the script ends with a return code other than 0 before it
\* wrote anything; the monitor prints a warning and goes on
ScriptFails ==
    /\ pc = "script_login"
    /\ pc' = "script_exited"
    /\ UNCHANGED <<logged_in, script, df, result, monitor_vars, batch_vars, classifier_vars>>

\* etf_breakout_analysis_fixed.main, lines 385-387: login_baostock returned
\* False, main returns
LoginBaostockFails ==
    /\ pc = "script_login"
    /\ pc' = "script_exited"
    /\ UNCHANGED <<logged_in, script, df, result, monitor_vars, batch_vars, classifier_vars>>

\* etf_breakout_analysis_fixed.main, lines 385-391
LoginBaostock ==
    /\ pc = "script_login"
    /\ pc' = "script_loop"
    /\ idx' = 0
    /\ results' = <<>>
    /\ logged_in' = TRUE
    /\ UNCHANGED <<script, df, result, monitor_vars, fetched, categories, file_run, classifier_vars>>

\* etf_breakout_analysis_fixed.main, lines 395-421, one pass of the loop
\* whose fetch fails
FetchFails ==
    /\ pc = "script_loop"
    /\ idx < Len(ALL_ETFS)
    /\ \E outcome \in FetchFailures :
          /\ df' = get_etf_data(outcome)
          /\ results' = appended(results, df', None)
    /\ fetched' = Append(fetched, [code |-> ALL_ETFS[idx + 1][1], returned |-> "None"])
    /\ idx' = idx + 1
    /\ UNCHANGED <<logged_in, pc, script, result, monitor_vars, categories, file_run, classifier_vars>>

\* etf_breakout_analysis_fixed.main, lines 395-421, one pass of the loop
\* whose fetch returns a history
AnalyseEtf ==
    /\ pc = "script_loop"
    /\ idx < Len(ALL_ETFS)
    /\ \E outcome \in FetchSuccesses :
          LET data == get_etf_data(outcome)
              code == ALL_ETFS[idx + 1][1]
              name == ALL_ETFS[idx + 1][2]
          IN  /\ df' = calculate_technical_indicators_fixed(data)
              /\ \E assessment \in check_bottom_breakout_fixed(df') :
                    /\ result' = with_identity(assessment, name, code)
                    /\ results' = appended(results, data, result')
              /\ fetched' = Append(fetched, [code |-> code, returned |-> "DataFrame"])
    /\ idx' = idx + 1
    /\ UNCHANGED <<logged_in, pc, script, monitor_vars, categories, file_run, classifier_vars>>

\* etf_breakout_analysis_fixed.main, lines 424-435: the loop is over and
\* there is no result; main returns
NoResults ==
    /\ pc = "script_loop"
    /\ idx = Len(ALL_ETFS)
    /\ results = <<>>
    /\ pc' = "script_exited"
    /\ logged_in' = FALSE
    /\ UNCHANGED <<script, df, result, monitor_vars, batch_vars, classifier_vars>>

\* etf_breakout_analysis_fixed.main, lines 424-515: the results are sorted,
\* written to the file and grouped by category
SaveResults ==
    /\ pc = "script_loop"
    /\ idx = Len(ALL_ETFS)
    /\ results # <<>>
    /\ pc' = "script_exited"
    /\ results' = sort_by_score(results)
    /\ etf_file' = [exists |-> TRUE, results |-> results']
    /\ file_run' = "current"
    /\ categories' = main_categories(results')
    /\ logged_in' = FALSE
    /\ UNCHANGED <<script, df, result, industry_file, industry_result, etf_result,
                   combined, news_service, idx, fetched, classifier_vars>>

\* industry_daily_monitor_enhanced, lines 83-84 and 119-125: the script is
\* still running after 300 seconds; subprocess.run kills it and raises
\* TimeoutExpired
ScriptTimesOut ==
    /\ pc \in {"script_login", "script_loop"}
    /\ pc' = "etf_done"
    /\ etf_result' = run_etf_error
    /\ UNCHANGED <<logged_in, script, df, result, industry_file, etf_file, industry_result,
                   combined, news_service, batch_vars, classifier_vars>>

\* industry_daily_monitor_enhanced, lines 89-118: the script has ended
ReadEtfResults ==
    /\ pc = "script_exited"
    /\ pc' = "etf_done"
    /\ etf_result' = run_etf_breakout_analysis_enhanced(etf_file)
    /\ UNCHANGED <<logged_in, script, df, result, industry_file, etf_file, industry_result,
                   combined, news_service, batch_vars, classifier_vars>>

NextRun ==
    \/ RunIndustryBreakoutAnalysis
    \/ StartEtfScript
    \/ ScriptFails
    \/ LoginBaostockFails
    \/ LoginBaostock
    \/ FetchFails
    \/ AnalyseEtf
    \/ NoResults
    \/ SaveResults
    \/ ScriptTimesOut
    \/ ReadEtfResults
    \/ CombineResultsEnhanced

SpecRun == InitRun /\ [][NextRun]_vars

---------------------------------------------------------------------------
(* One call of categorize_etf *)

\* parts of instrument names: nothing, keywords of several categories, a
\* keyword in upper case, and a word no keyword matches
\* ('', 医疗, 酒, 5G, 碳中和, 环保, 券商, 生物医药, 新能源)
NameParts ==
    {<<>>,
     <<"u533b", "u7597">>,
     <<"u9152">>,
     <<"5", "G">>,
     <<"u78b3", "u4e2d", "u548c">>,
     <<"u73af", "u4fdd">>,
     <<"u5238", "u5546">>,
     <<"u751f", "u7269", "u533b", "u836f">>,
     <<"u65b0", "u80fd", "u6e90">>}

\* the names categorize_etf is called with: up to two parts and "ETF"
Names == {first \o second \o <<"E", "T", "F">> : first, second \in NameParts}

InitCategorize ==
    /\ logged_in = FALSE
    /\ pc = "name"
    /\ script = "industry_daily_monitor_enhanced"
    /\ df = None
    /\ result = None
    /\ industry_file = [exists |-> FALSE]
    /\ etf_file = [exists |-> FALSE]
    /\ industry_result = None
    /\ etf_result = None
    /\ combined = None
    /\ news_service = "unknown"
    /\ idx = 0
    /\ fetched = <<>>
    /\ results = <<>>
    /\ categories = None
    /\ file_run = "none"
    /\ classified_name \in Names
    /\ classified_as = None

\* industry_daily_monitor_enhanced.combine_results, line 306
CategorizeEtf ==
    /\ pc = "name"
    /\ pc' = "categorized"
    /\ classified_as' = categorize_etf(classified_name)
    /\ UNCHANGED <<logged_in, script, df, result, monitor_vars, batch_vars, classified_name>>

NextCategorize == CategorizeEtf

SpecCategorize == InitCategorize /\ [][NextCategorize]_vars

---------------------------------------------------------------------------
(* The volume ratio of the scoring variants, on one volume series *)

\* volumes: a level for the bars before the last k, another for the last k
VolumeSeries ==
    {[i \in 1..L |-> IF i > L - k THEN late ELSE early] :
        L \in {20, 25, 30}, k \in {5, 10, 20},
        early \in {0, 100}, late \in {0, 100, 130, 250}}

\* a history of constant price with the given volumes
FlatBars(volume) ==
    LET close == [i \in 1..Len(volume) |-> 1000]
    IN  DataFrame(close, close, close, volume)

\* etf_breakout_analysis_fixed.check_bottom_breakout, lines 226-237, 274 and
\* 279-285: the ratio, condition2 and the points the volume earns
volume_assessment_fixed(d) ==
    LET v == locals_fixed(d)
    IN  [volume_ratio_is_one |-> (v.volume_ratio.n = v.volume_ratio.d),
         volume_condition |-> v.condition2,
         volume_points |-> (IF v.condition2 THEN 2 ELSE 0)
                           + (IF Gt(v.volume_ratio, Frac(18, 10)) THEN 1 ELSE 0)]

\* etf_analysis.analyze_breakout, lines 124-130, 137 and 162-166.  The
\* quotient x / (y + 1e-8) is 0 for x = 0 = y, above every threshold for
\* y = 0 < x, and one (to ten decimals) for x = y > 0
volume_assessment_etf_analysis(d) ==
    IF len(d) >= 25
    THEN LET recent_volume == SumRange(d.volume, ilocFrom(d.volume, 5), len(d))
             prev_volume == SumRange(d.volume, ilocFrom(d.volume, 25), ilocTo(d.volume, 5))
             surge_above(k) == GtGuarded(recent_volume * 20, prev_volume * 5, k)
             volume_surge_significant == surge_above(Frac(15, 10))
         IN  [volume_ratio_is_one |-> (prev_volume > 0 /\ recent_volume * 20 = prev_volume * 5),
              volume_condition |-> volume_surge_significant,
              volume_points |-> IF volume_surge_significant THEN 2
                                ELSE IF surge_above(Frac(12, 10)) THEN 1 ELSE 0]
    ELSE [volume_ratio_is_one |-> TRUE, volume_condition |-> FALSE, volume_points |-> 0]

\* quick_etf_analysis.simple_analysis, lines 82-88 and 103-104
volume_assessment_quick(d) ==
    IF len(d) >= 10
    THEN LET vol_recent == SumRange(d.volume, ilocFrom(d.volume, 5), len(d))
             vol_previous == SumRange(d.volume, ilocFrom(d.volume, 10), ilocTo(d.volume, 5))
             ratio_above(k) == GtGuarded(vol_recent, vol_previous, k)
         IN  [volume_ratio_is_one |-> (vol_previous > 0 /\ vol_recent = vol_previous),
              volume_condition |-> ratio_above(Frac(12, 10)),
              volume_points |-> (IF ratio_above(Frac(12, 10)) THEN 1 ELSE 0)
                                + (IF ratio_above(Frac(15, 10)) THEN 1 ELSE 0)]
    ELSE [volume_ratio_is_one |-> TRUE, volume_condition |-> FALSE, volume_points |-> 0]

InitVolume ==
    /\ logged_in = FALSE
    /\ pc = "volume"
    /\ script = "none"
    /\ df \in {FlatBars(volume) : volume \in VolumeSeries}
    /\ result = None
    /\ industry_file = [exists |-> FALSE]
    /\ etf_file = [exists |-> FALSE]
    /\ industry_result = None
    /\ etf_result = None
    /\ combined = None
    /\ news_service = "unknown"
    /\ idx = 0
    /\ fetched = <<>>
    /\ results = <<>>
    /\ categories = None
    /\ file_run = "none"
    /\ classified_name = <<>>
    /\ classified_as = None

\* etf_breakout_analysis_fixed.check_bottom_breakout
VolumeRatioFixed ==
    /\ pc = "volume"
    /\ pc' = "volume_done"
    /\ script' = "fixed"
    /\ result' = volume_assessment_fixed(df)
    /\ UNCHANGED <<logged_in, df, monitor_vars, batch_vars, classifier_vars>>

\* etf_analysis.analyze_breakout
VolumeSurgeEtfAnalysis ==
    /\ pc = "volume"
    /\ pc' = "volume_done"
    /\ script' = "etf_analysis"
    /\ result' = volume_assessment_etf_analysis(df)
    /\ UNCHANGED <<logged_in, df, monitor_vars, batch_vars, classifier_vars>>

\* quick_etf_analysis.simple_analysis
VolumeRatioQuick ==
    /\ pc = "volume"
    /\ pc' = "volume_done"
    /\ script' = "quick_etf_analysis"
    /\ result' = volume_assessment_quick(df)
    /\ UNCHANGED <<logged_in, df, monitor_vars, batch_vars, classifier_vars>>

NextVolume ==
    \/ VolumeRatioFixed
    \/ VolumeSurgeEtfAnalysis
    \/ VolumeRatioQuick

SpecVolume == InitVolume /\ [][NextVolume]_vars

---------------------------------------------------------------------------
(* One run of check_bottom_breakout on a history that falls within the     *)
(* last five bars and recovers on the last one                              *)

\* a slow rise, a fall of 100 ticks `fall` bars before the last bar, and a
\* move on the last bar
FallAndRecovery(L, rise, fall, jump) ==
    LET close == [i \in 1..L |->
                    1000 + rise * (i - 1) - (IF i >= L - fall THEN 100 ELSE 0)
                    + (IF i = L THEN jump ELSE 0)]
    IN  DataFrame(close, close, close, [i \in 1..L |-> 100])

RecoveryInputs ==
    {FallAndRecovery(L, rise, fall, jump) :
        L \in {30, 60}, rise \in {0, 1}, fall \in 1..5, jump \in {0, 150, 300}}

InitRecovery ==
    /\ logged_in = FALSE
    /\ pc = "fetched"
    /\ script = "none"
    /\ df \in RecoveryInputs
    /\ result = None
    /\ industry_file = [exists |-> FALSE]
    /\ etf_file = [exists |-> FALSE]
    /\ industry_result = None
    /\ etf_result = None
    /\ combined = None
    /\ news_service = "unknown"
    /\ idx = 0
    /\ fetched = <<>>
    /\ results = <<>>
    /\ categories = None
    /\ file_run = "none"
    /\ classified_name = <<>>
    /\ classified_as = None

NextRecovery ==
    \/ CalculateIndicatorsFixed
    \/ CheckBottomBreakoutFixed
    \/ CalculateIndicatorsEtf
    \/ CheckBottomBreakoutEtf

SpecRecovery == InitRecovery /\ [][NextRecovery]_vars

---------------------------------------------------------------------------
(* The score and the strength label of etf_analysis.analyze_breakout and   *)
(* etf_analysis_short.analyze_breakout, on the outcomes of their tests      *)

\* etf_analysis.analyze_breakout, lines 121-143: what the tests of the score
\* found (drawdown and volume as the number of thresholds passed)
ConditionsEtfAnalysis ==
    [drawdown_level : 0..2, in_low_position : BOOLEAN, price_above_ma20 : BOOLEAN,
     volume_level : 0..2, rsi_recovering : BOOLEAN, macd_golden_cross : BOOLEAN,
     rebounded : BOOLEAN]

\* etf_analysis_short.analyze_breakout, lines 110-134
ConditionsShort ==
    [drawdown_level : 0..2, volume_level : 0..2, break_ma10 : BOOLEAN,
     break_ma20 : BOOLEAN, break_bb_upper : BOOLEAN, macd_golden : BOOLEAN,
     rsi_oversold_recovery : BOOLEAN]

\* etf_analysis.analyze_breakout, lines 146-178
score_etf_analysis(c) ==
    c.drawdown_level
    + (IF c.in_low_position THEN 1 ELSE 0)
    + (IF c.price_above_ma20 THEN 1 ELSE 0)
    + c.volume_level
    + (IF c.rsi_recovering THEN 1 ELSE 0)
    + (IF c.macd_golden_cross THEN 2 ELSE 0)
    + (IF c.rebounded THEN 1 ELSE 0)

\* etf_analysis_short.analyze_breakout, lines 140-149
score_short(c) ==
    (IF c.drawdown_level >= 1 THEN 2 ELSE 0) + (IF c.drawdown_level >= 2 THEN 1 ELSE 0)
    + (IF c.volume_level >= 1 THEN 2 ELSE 0) + (IF c.volume_level >= 2 THEN 1 ELSE 0)
    + (IF c.break_ma10 THEN 1 ELSE 0)
    + (IF c.break_ma20 THEN 2 ELSE 0)
    + (IF c.break_bb_upper THEN 2 ELSE 0)
    + (IF c.macd_golden THEN 2 ELSE 0)
    + (IF c.rsi_oversold_recovery THEN 2 ELSE 0)

\* etf_analysis_short.analyze_breakout, lines 152-159
strength_short(score) ==
    IF score >= 10 THEN "strong"
    ELSE IF score >= 7 THEN "medium"
    ELSE IF score >= 4 THEN "weak"
    ELSE "none"

InitStrength ==
    /\ logged_in = FALSE
    /\ pc = "conditions"
    /\ \/ script = "etf_analysis" /\ result \in ConditionsEtfAnalysis
       \/ script = "etf_analysis_short" /\ result \in ConditionsShort
    /\ df = None
    /\ industry_file = [exists |-> FALSE]
    /\ etf_file = [exists |-> FALSE]
    /\ industry_result = None
    /\ etf_result = None
    /\ combined = None
    /\ news_service = "unknown"
    /\ idx = 0
    /\ fetched = <<>>
    /\ results = <<>>
    /\ categories = None
    /\ file_run = "none"
    /\ classified_name = <<>>
    /\ classified_as = None

\* etf_analysis.analyze_breakout, lines 146-188
RateEtfAnalysis ==
    /\ pc = "conditions"
    /\ script = "etf_analysis"
    /\ pc' = "rated"
    /\ result' = setitem(setitem(result, "score", score_etf_analysis(result)),
                         "strength", strength_of(score_etf_analysis(result)))
    /\ UNCHANGED <<logged_in, script, df, monitor_vars, batch_vars, classifier_vars>>

\* etf_analysis_short.analyze_breakout, lines 140-159
RateShort ==
    /\ pc = "conditions"
    /\ script = "etf_analysis_short"
    /\ pc' = "rated"
    /\ result' = setitem(setitem(result, "score", score_short(result)),
                         "strength", strength_short(score_short(result)))
    /\ UNCHANGED <<logged_in, script, df, monitor_vars, batch_vars, classifier_vars>>

NextStrength ==
    \/ RateEtfAnalysis
    \/ RateShort

SpecStrength == InitStrength /\ [][NextStrength]_vars

---------------------------------------------------------------------------
(* The baostock session of the main function of the four analysis scripts  *)
(* that log in themselves                                                   *)

\* the scripts, by file name
SessionScripts ==
    {"etf_analysis", "simple_etf_analysis", "etf_breakout_analysis_fixed", "quick_etf_analysis"}

\* the scripts whose main writes its report before the line of the logout
ReportBeforeLogout == {"etf_analysis", "simple_etf_analysis", "quick_etf_analysis"}

\* etf_analysis.main lines 351-419 and simple_etf_analysis.main lines
\* 316-345: both branches of the report end with a return statement
ReturnsFromReportBranch == {"etf_analysis", "simple_etf_analysis"}

\* instruments of the loop
SessionEtfs == 3

\* scores of an analysis, as far as the sort of the report sees them
SessionScores == {1, 5}

InitSession ==
    /\ logged_in = FALSE
    /\ pc = "main"
    /\ script \in SessionScripts
    /\ df = None
    /\ result = None
    /\ industry_file = [exists |-> FALSE]
    /\ etf_file = [exists |-> FALSE]
    /\ industry_result = None
    /\ etf_result = None
    /\ combined = None
    /\ news_service = "unknown"
    /\ idx = 0
    /\ fetched = <<>>
    /\ results = <<>>
    /\ categories = None
    /\ file_run = "none"
    /\ classified_name = <<>>
    /\ classified_as = None

\* bs.login() answers with an error code: init_baostock / login_baostock
\* returns None / False and main returns (etf_analysis 315-316,
\* simple_etf_analysis 279-280, etf_breakout_analysis_fixed 386-387,
\* quick_etf_analysis 136-139)
SessionLoginFails ==
    /\ pc = "main"
    /\ pc' = "returned"
    /\ UNCHANGED <<logged_in, script, df, result, monitor_vars, batch_vars, classifier_vars>>

\* bs.login() succeeds
SessionLogin ==
    /\ pc = "main"
    /\ pc' = "loop"
    /\ logged_in' = TRUE
    /\ UNCHANGED <<script, df, result, monitor_vars, batch_vars, classifier_vars>>

\* one pass of the loop that adds nothing: no data, too few bars or no
\* analysis (etf_analysis 332-335, simple_etf_analysis 297-300,
\* etf_breakout_analysis_fixed 418-421, quick_etf_analysis 148-158)
SessionSkip ==
    /\ pc = "loop"
    /\ idx < SessionEtfs
    /\ idx' = idx + 1
    /\ UNCHANGED <<logged_in, pc, script, df, result, monitor_vars, fetched, results,
                   categories, file_run, classifier_vars>>

\* one pass of the loop that appends an analysis (etf_analysis 337-344,
\* simple_etf_analysis 302-309, etf_breakout_analysis_fixed 401-417,
\* quick_etf_analysis 153-156)
SessionAnalyse ==
    /\ pc = "loop"
    /\ idx < SessionEtfs
    /\ \E score \in SessionScores :
          results' = Append(results, [code |-> idx + 1, score |-> score])
    /\ idx' = idx + 1
    /\ UNCHANGED <<logged_in, pc, script, df, result, monitor_vars, fetched,
                   categories, file_run, classifier_vars>>

\* the loop is over and the report is written with open(...) in the
\* directory reports/, which no script creates: the open raises and the
\* exception leaves main (etf_analysis 387-388, simple_etf_analysis 324-325,
\* quick_etf_analysis 171)
OpenReportRaises ==
    /\ pc = "loop"
    /\ idx = SessionEtfs
    /\ script \in ReportBeforeLogout
    /\ results # <<>>
    /\ pc' = "raised"
    /\ UNCHANGED <<logged_in, script, df, result, monitor_vars, batch_vars, classifier_vars>>

\* etf_analysis.main lines 351-419 and simple_etf_analysis.main lines
\* 316-345: `return report` / `return report_filename` after the report,
\* `return None` without results; bs.logout() on line 422 / 348 follows the
\* if / else and is never reached
MainReturnsFromReportBranch ==
    /\ pc = "loop"
    /\ idx = SessionEtfs
    /\ script \in ReturnsFromReportBranch
    /\ pc' = "returned"
    /\ UNCHANGED <<logged_in, script, df, result, monitor_vars, batch_vars, classifier_vars>>

\* etf_breakout_analysis_fixed.main line 424, before the summary and the
\* file are written, and quick_etf_analysis.main lines 161-204, after the
\* report: the session is closed and main returns
MainLogsOut ==
    /\ pc = "loop"
    /\ idx = SessionEtfs
    /\ script \notin ReturnsFromReportBranch
    /\ logged_in' = FALSE
    /\ pc' = "returned"
    /\ UNCHANGED <<script, df, result, monitor_vars, batch_vars, classifier_vars>>

NextSession ==
    \/ SessionLoginFails
    \/ SessionLogin
    \/ SessionSkip
    \/ SessionAnalyse
    \/ OpenReportRaises
    \/ MainReturnsFromReportBranch
    \/ MainLogsOut

SpecSession == InitSession /\ [][NextSession]_vars

---------------------------------------------------------------------------
(* Properties *)

Done(s) == pc = "done" /\ script = s

\* a full assessment (the dict of lines 294-317) and a basic one (357-369)
IsFull(r) == "condition1" \in DOMAIN r

IsBasic(r) == "analysis_type" \in DOMAIN r /\ r.analysis_type = "basic"

ConditionCount(r) ==
    (IF r.condition1 THEN 1 ELSE 0) + (IF r.condition2 THEN 1 ELSE 0)
    + (IF r.condition3 THEN 1 ELSE 0) + (IF r.condition4 THEN 1 ELSE 0)

\* C1: all_conditions_met is true exactly when condition1..condition4 are
\* all true, in the adaptive and in the non-adaptive check_bottom_breakout;
\* three conditions give false whatever the score
C1_AllConditionsIsConjunction ==
    (pc = "done" /\ script \in {"fixed", "etf"} /\ IsFull(result)) =>
        (result.all_conditions_met <=>
            (result.condition1 /\ result.condition2
             /\ result.condition3 /\ result.condition4))

\* exactly three conditions, the score at its maximum, and the flag false
C1_Witness ==
    /\ Done("fixed") /\ IsFull(result)
    /\ ConditionCount(result) = 3
    /\ result.score = 100
    /\ ~result.all_conditions_met

\* C2: every assessment of the adaptive check_bottom_breakout, full or
\* basic, has 0 <= score <= 10
C2_ScoreWithinRange ==
    (Done("fixed") /\ result # None) =>
        (result.score >= 0 /\ result.score <= 100)

\* every condition and every bonus item on a full history: base 12, capped
C2_Witness ==
    /\ Done("fixed") /\ IsFull(result)
    /\ locals_fixed(df).base_score = 12
    /\ result.score = 100

\* C3: the score of the non-adaptive check_bottom_breakout never exceeds 10
C3_ScoreAtMostTen ==
    (pc = "done" /\ script \in {"etf", "industry"} /\ result # None) =>
        result.score <= 100

\* C4: with 20 <= L < 60 bars the final score is strictly below 10
C4_ThinHistoryBelowMax ==
    (Done("fixed") /\ IsFull(result) /\ len(df) >= 20 /\ len(df) < 60) =>
        result.score < 100

\* C5: a final score of 0 is reached only from a base score of 0
C5_ZeroOnlyFromZero ==
    (Done("fixed") /\ IsFull(result) /\ result.score = 0) =>
        locals_fixed(df).base_score = 0

\* the smallest positive base score on the shortest full-mode history
C5_Witness ==
    /\ Done("fixed") /\ IsFull(result)
    /\ len(df) = 20
    /\ locals_fixed(df).base_score = 2
    /\ result.score > 0

\* the score the same base score receives with 60 or more bars
ScoreAtFullHistory(base_score) ==
    CHOOSE sc \in RoundSet(final_score_fixed(base_score, 60), 10) : TRUE

\* C6 as claimed: below 60 bars the final score is at most half the score of
\* the same conditions on a full history
C6_AtMostHalfOfFullHistory ==
    (Done("fixed") /\ IsFull(result) /\ len(df) < 60) =>
        2 * result.score <= ScoreAtFullHistory(locals_fixed(df).base_score)

\* C6 amended: below 60 bars the final score is at least half, and never
\* more than, the score of the same conditions on a full history
C6_BetweenHalfAndFullHistory ==
    (Done("fixed") /\ IsFull(result) /\ len(df) < 60) =>
        LET full == ScoreAtFullHistory(locals_fixed(df).base_score)
        IN  2 * result.score >= full /\ result.score <= full

\* a thin history whose score lies strictly between half and the full score
C6_Witness ==
    /\ Done("fixed") /\ IsFull(result) /\ len(df) < 60
    /\ LET full == ScoreAtFullHistory(locals_fixed(df).base_score)
       IN  2 * result.score > full /\ result.score < full

\* C7: the adaptive check_bottom_breakout returns an assessment tagged
\* 'basic' exactly for 1..19 bars, and a basic assessment never has
\* all_conditions_met
C7_BasicExactlyBelowTwenty ==
    Done("fixed") =>
        /\ (result # None /\ IsBasic(result)) <=> (len(df) \in 1..19)
        /\ (result # None /\ IsBasic(result)) => ~result.all_conditions_met

C7_Witness ==
    Done("fixed") /\ len(df) = 19 /\ IsBasic(result)

GoldenFlag(r) ==
    IF "macd_golden" \in DOMAIN r THEN r.macd_golden ELSE r.macd_golden_cross

\* C8: in every variant the golden-cross flag of the last bar is true
\* exactly when line(t-1) <= signal(t-1) and line(t) > signal(t)
C8_GoldenCrossIffCrossing ==
    (pc = "done" /\ result # None /\ "MACD" \in df.columns) =>
        (GoldenFlag(result) <=>
            (/\ ilocNeg(df.MACD, 2) <= ilocNeg(df.MACD_signal, 2)
             /\ ilocNeg(df.MACD, 1) > ilocNeg(df.MACD_signal, 1)))

IsFlat(d) ==
    /\ \A i \in 1..len(d) :
          /\ d.close[i] = d.close[1]
          /\ d.high[i] = d.high[1]
          /\ d.volume[i] = d.volume[1]
    /\ d.volume[1] > 0

\* C9: a flat series of at least 20 bars gets drawdown 0, volume ratio 1,
\* no condition, all_conditions_met false and score 0
C9_FlatSeriesScoresZero ==
    (Done("fixed") /\ len(df) >= 20 /\ IsFlat(df)) =>
        /\ result.drawdown = 0
        /\ result.volume_ratio = 100
        /\ ConditionCount(result) = 0
        /\ ~result.all_conditions_met
        /\ result.score = 0

\* a flat series long enough for every indicator column
C9_Witness ==
    /\ Done("fixed") /\ len(df) >= 26 /\ IsFlat(df)
    /\ {"MA20", "MACD", "MACD_signal", "RSI"} \subseteq df.columns
    /\ result.score = 0

\* where the records of one identifier sit in a list of recommendations
RecordsOf(recommendations, code) ==
    {k \in 1..Len(recommendations) : recommendations[k].code = code}

\* C10: when the industry set and the ETF set handed to combine_results
\* both hold an entry with the same identifier, the merged list holds one
\* record for it: top_recommendations and every bucket of
\* category_recommendations show the identifier at most once (exactly once
\* in top_recommendations when every candidate fits into it), and the record
\* is the one of the higher score, the industry entry on a tie.
C10_SameIdentifierMergedOnce ==
    (pc = "combined") =>
        \A i \in 1..Len(combined.top_industries), j \in 1..Len(combined.top_etfs) :
            LET industry == combined.top_industries[i]
                etf == combined.top_etfs[j]
                recommendations == combined.top_recommendations
                records == RecordsOf(recommendations, industry.industry_code)
            IN  (industry.industry_code = etf.etf_code) =>
                    /\ Cardinality(records) <= 1
                    /\ (Len(combined.top_industries) + Len(combined.top_etfs) <= Len(recommendations) + 1)
                            => Cardinality(records) = 1
                    /\ \A k \in records :
                            recommendations[k].type =
                                (IF industry.score >= etf.score THEN "industry" ELSE "etf")
                    /\ ("category_recommendations" \in DOMAIN combined) =>
                            \A c \in DOMAIN combined.category_recommendations :
                                Cardinality(RecordsOf(combined.category_recommendations[c],
                                                      industry.industry_code)) <= 1

Combined(monitor) == pc = "combined" /\ script = monitor

\* the merged candidate list of the enhanced monitor, rebuilt from the
\* annotated top lists that combine_results returned
MergedCandidates == all_candidates_of(combined.top_industries, combined.top_etfs)

\* C13: every category of a record handed to combine_results has its own
\* recommendation list, holding the best records of that category whatever
\* their global rank: a handed record that is not in the list of its
\* category is outscored by two listed records.
C13_CategoryTopNIndependentOfGlobalRank ==
    (Combined("industry_daily_monitor_enhanced") /\ "all_results" \in DOMAIN etf_result) =>
        \A k \in 1..Len(etf_result.all_results) :
            LET etf == etf_result.all_results[k]
                c == categorize_etf(etf.etf_name)
                lists == combined.category_recommendations
            IN  /\ c \in DOMAIN lists
                /\ \/ RecordsOf(lists[c], etf.etf_code) # {}
                   \/ /\ Len(lists[c]) = 2
                      /\ \A i \in 1..2 : lists[c][i].score >= etf.score

\* C14: in both monitors the score of a recommendation is
\* min(10, raw score + bonus) with a bonus of 0 or 0.5, so it never
\* exceeds 10.
C14_RecommendationScoreCapped ==
    (pc = "combined") =>
        \A k \in 1..Len(combined.top_recommendations) :
            LET rec == combined.top_recommendations[k]
                raw == IF rec.type = "industry"
                       THEN {combined.top_industries[i].score :
                                i \in {i \in 1..Len(combined.top_industries) :
                                          combined.top_industries[i].industry_code = rec.code}}
                       ELSE {combined.top_etfs[i].score :
                                i \in {i \in 1..Len(combined.top_etfs) :
                                          combined.top_etfs[i].etf_code = rec.code}}
            IN  /\ rec.score <= 100
                /\ \E r \in raw, bonus \in {0, 5} : rec.score = Min(100, r + bonus)

C16_UnavailableNewsDisablesBonus ==
    (Combined("industry_daily_monitor_enhanced") /\ news_service = "unavailable") =>
        /\ combined.status = "success"
        /\ \A i \in 1..Len(combined.top_industries) : combined.top_industries[i].news = <<>>
        /\ \A i \in 1..Len(combined.top_etfs) : combined.top_etfs[i].news = <<>>
        /\ LET merged == MergedCandidates
           IN  /\ combined.top_recommendations = take(merged, 5)
               /\ \A i \in 1..Len(merged) :
                     /\ merged[i].news_count = 0
                     /\ merged[i].score = Min(100, merged[i].original_score)

\* the search was asked for industries and for ETFs of score 6 and more,
\* found nothing, and five recommendations came out
C16_Witness ==
    /\ Combined("industry_daily_monitor_enhanced")
    /\ news_service = "unavailable"
    /\ Len(combined.top_industries) > 0
    /\ \E i \in 1..Len(combined.top_etfs) : combined.top_etfs[i].score >= 60
    /\ Len(combined.top_recommendations) = 5
    /\ \E i \in 1..5 : combined.top_recommendations[i].original_score > 100

\* the number of assessments of an instrument in the list of results
AssessmentsOf(code) ==
    Cardinality({i \in 1..Len(results) : results[i].etf_code = code})

\* C17: in the batch loop of etf_breakout_analysis_fixed.main the first idx
\* instruments of ALL_ETFS have been visited, each once and in order; an
\* instrument whose fetch returned None has no assessment, one whose fetch
\* returned a history has exactly one, whatever happened to the instruments
\* before it; and the script leaves the loop only after the last instrument
C17_BatchLoopVisitsEveryInstrument ==
    /\ idx \in 0..Len(ALL_ETFS)
    /\ Len(fetched) = idx
    /\ \A k \in 1..idx : fetched[k].code = ALL_ETFS[k][1]
    /\ \A i \in 1..Len(results) : \E k \in 1..idx : results[i].etf_code = ALL_ETFS[k][1]
    /\ \A k \in 1..Len(ALL_ETFS) :
          AssessmentsOf(ALL_ETFS[k][1]) =
              (IF k <= idx /\ fetched[k].returned = "DataFrame" THEN 1 ELSE 0)
    /\ (pc = "script_exited" /\ fetched # <<>>) => idx = Len(ALL_ETFS)

\* the loop is over; the first fetch failed, the two after it did not
C17_Witness ==
    /\ pc = "script_loop"
    /\ idx = Len(ALL_ETFS)
    /\ fetched[1].returned = "None"
    /\ fetched[2].returned = "DataFrame"
    /\ fetched[3].returned = "DataFrame"
    /\ Len(results) = 2

\* the monitor has the dict run_etf_breakout_analysis_enhanced returned
EtfRunReturned == pc \in {"etf_done", "combined"}

\* C18: when the subprocess is cut off by the 300-second timeout, every
\* assessment the script had completed is among the ETF records handed to
\* combine_results
C18_TimeoutKeepsCompletedAssessments ==
    (EtfRunReturned /\ etf_result.status = "error") =>
        \A i \in 1..Len(results) :
            \E j \in 1..Len(etf_result.top_etfs) :
                etf_result.top_etfs[j].etf_code = results[i].etf_code

\* C19: a dict of status 'success' holds assessments the script wrote in
\* this run, never those an earlier run left in the file
C19_ResultsAreOfThisRun ==
    (EtfRunReturned /\ etf_result.status = "success") => file_run = "current"

\* the position of an identifier in a list of dicts (0 when it is not there)
PositionOf(list, key, code) ==
    IF \E i \in 1..Len(list) : list[i][key] = code
    THEN CHOOSE i \in 1..Len(list) : list[i][key] = code
    ELSE 0

\* the position of a candidate in the input of the merge: the industries in
\* the order received, then the ETFs in the order received
InputRank(candidate) ==
    IF candidate.type = "industry"
    THEN PositionOf(combined.top_industries, "industry_code", candidate.code)
    ELSE Len(combined.top_industries)
         + PositionOf(combined.top_etfs, "etf_code", candidate.code)

\* the position of an instrument in the order the batch loop visits them
VisitRank(code) ==
    CHOOSE k \in 1..Len(ALL_ETFS) : ALL_ETFS[k][1] = code

\* C11: top_recommendations is in descending order of score and candidates of
\* equal score are in the order of the input (industries before ETFs, each
\* group as received); the list of results etf_breakout_analysis_fixed.main
\* sorted and wrote is in descending order of score, results of equal score
\* in the order the loop produced them
C11_RankingDescendingAndStable ==
    /\ Combined("industry_daily_monitor_enhanced") =>
          LET top == combined.top_recommendations
          IN  /\ Len(top) = Min(5, Len(combined.top_industries) + Len(combined.top_etfs))
              /\ \A i, j \in 1..Len(top) :
                    i < j =>
                        \/ top[i].score > top[j].score
                        \/ /\ top[i].score = top[j].score
                           /\ InputRank(top[i]) > 0
                           /\ InputRank(top[i]) < InputRank(top[j])
    /\ file_run = "current" =>
          /\ etf_file.results = results
          /\ \A i, j \in 1..Len(results) :
                i < j =>
                    \/ results[i].score > results[j].score
                    \/ /\ results[i].score = results[j].score
                       /\ VisitRank(results[i].etf_code) < VisitRank(results[j].etf_code)

\* an industry and an ETF of this run with the same score in the merged
\* ranking, and two results of the same score in the file
C11_Witness ==
    /\ Combined("industry_daily_monitor_enhanced")
    /\ file_run = "current"
    /\ \E i, j \in 1..Len(results) : i < j /\ results[i].score = results[j].score
    /\ \E i, j \in 1..Len(combined.top_recommendations) :
          /\ i < j
          /\ combined.top_recommendations[i].type = "industry"
          /\ combined.top_recommendations[j].type = "etf"
          /\ combined.top_recommendations[i].score = combined.top_recommendations[j].score

\* the slots <<category, k>> of a family of per-category counts
CountedSlots(counts) ==
    UNION {{<<c, k>> : k \in 1..counts[c]} : c \in DOMAIN counts}

\* C12: the counts of etf_categories sum to the number of records in
\* top_etfs, and each category counts exactly the records whose name
\* categorize_etf puts there; the lists of categories, built at the end of
\* etf_breakout_analysis_fixed.main, hold every result exactly once, in the
\* list of the category of its name
C12_CategoryCountsPartitionRecords ==
    /\ Combined("industry_daily_monitor_enhanced") =>
          LET top == combined.top_etfs
              cats == combined.etf_categories
          IN  /\ \A i \in 1..Len(top) : top[i].category = categorize_etf(top[i].etf_name)
              /\ DOMAIN cats = {top[i].category : i \in 1..Len(top)}
              /\ \A c \in DOMAIN cats :
                    cats[c].count = Cardinality({i \in 1..Len(top) : top[i].category = c})
              /\ Cardinality(CountedSlots([c \in DOMAIN cats |-> cats[c].count])) = Len(top)
    /\ file_run = "current" =>
          LET sizes == [c \in DOMAIN categories |-> Len(categories[c])]
          IN  /\ Cardinality(CountedSlots(sizes)) = Len(results)
              /\ \A i \in 1..Len(results) :
                    LET holds == {slot \in CountedSlots(sizes) :
                                     categories[slot[1]][slot[2]].etf_code = results[i].etf_code}
                    IN  /\ Cardinality(holds) = 1
                        /\ \A slot \in holds : slot[1] = main_category(results[i].etf_name)

\* three results of this run, two of them of one category and one that no
\* keyword matches, all three counted by combine_results
C12_Witness ==
    /\ Combined("industry_daily_monitor_enhanced")
    /\ file_run = "current"
    /\ Len(results) = 3
    /\ CATEGORY_OTHER \in DOMAIN categories
    /\ \E c \in DOMAIN categories : Len(categories[c]) = 2
    /\ Len(combined.top_etfs) = 3
    /\ Cardinality(DOMAIN combined.etf_categories) >= 2

\* the i-th keyword of the table is in the lower-cased name
KeywordMatches(i) == contains(lower(classified_name), category_map[i][1])

\* C20: categorize_etf returns one category for every name: that of the
\* first entry of category_map whose keyword is in the lower-cased name, and
\* 其他 exactly when no keyword is
C20_CategorizeEtfFirstKeywordWins ==
    pc = "categorized" =>
        /\ classified_as \in {category_map[i][2] : i \in 1..Len(category_map)} \cup {CATEGORY_OTHER}
        /\ classified_as = CATEGORY_OTHER <=> \A i \in 1..Len(category_map) : ~KeywordMatches(i)
        /\ \A i \in 1..Len(category_map) :
              (KeywordMatches(i) /\ \A j \in 1..(i - 1) : ~KeywordMatches(j)) =>
                  classified_as = category_map[i][2]

\* a name with keywords of two categories: the entry earlier in the table
\* wins although its keyword comes later in the name
C20_Witness ==
    /\ pc = "categorized"
    /\ \E i, j \in 1..Len(category_map) :
          /\ i < j
          /\ KeywordMatches(i) /\ KeywordMatches(j)
          /\ \A k \in 1..(i - 1) : ~KeywordMatches(k)
          /\ category_map[i][2] # category_map[j][2]
          /\ classified_as = category_map[i][2]
          /\ \E a, b \in 1..Len(classified_name) :
                /\ a < b
                /\ SubSeq(lower(classified_name), a, a + Len(category_map[j][1]) - 1) = category_map[j][1]
                /\ SubSeq(lower(classified_name), b, b + Len(category_map[i][1]) - 1) = category_map[i][1]

\* C29: the if / elif chain of etf_breakout_analysis_fixed.main gives a name
\* the category categorize_etf gives it
C29_ClassifiersAgree ==
    pc = "categorized" => main_category(classified_name) = classified_as

\* the indicators of the script have been computed and RSI is among them
HasColumn(column) ==
    pc \in {"indicators", "done"} /\ df # None /\ column \in df.columns

\* C21: at every bar whose 14-bar window fits, RSI is a number between 0 and
\* 100, and it is at the top of the range when the window has no loss
C21_RsiWithinRange ==
    HasColumn("RSI") =>
        \A i \in 14..len(df) :
            /\ ~isna(df.RSI[i])
            /\ Le(Num(0), df.RSI[i])
            /\ Le(df.RSI[i], Num(100))
            /\ rolling_mean(losses(df.close), 14)[i].n = 0 => Le(Num(99), df.RSI[i])

\* the sum of the volumes of the baseline window of the variant that ran
\* (bars -20..-11, -25..-6, -10..-6), -1 where the variant forms no ratio
BaselineVolume ==
    LET first == IF script = "fixed" THEN 20 ELSE IF script = "etf_analysis" THEN 25 ELSE 10
        last == IF script = "fixed" THEN 10 ELSE 5
    IN  IF len(df) >= first
        THEN SumRange(df.volume, ilocFrom(df.volume, first), ilocTo(df.volume, last))
        ELSE 0 - 1

\* C22: when the mean volume of the baseline window is zero, the volume
\* ratio is 1, the volume condition is false and the volume earns no point
C22_ZeroBaselineIsNeutral ==
    (pc = "volume_done" /\ BaselineVolume = 0) =>
        /\ result.volume_ratio_is_one
        /\ ~result.volume_condition
        /\ result.volume_points = 0

\* C27: price_break_high is true exactly when the current close is above the
\* high of every one of the 19 bars before the current bar (18 when the
\* analysis window of the adaptive variant is 20 bars), the current bar's own
\* high not being looked at; condition3 is price_break_ma20 or
\* price_break_high
C27_PriceBreakHighExcludesCurrentBar ==
    (pc = "done" /\ script \in {"fixed", "etf", "industry"} /\ IsFull(result)) =>
        LET last == len(df)
            before == IF script = "fixed" /\ Min(60, last) = 20 THEN 18 ELSE 19
        IN  /\ result.price_break_high <=>
                  \A i \in (last - before)..(last - 1) : df.close[last] > df.high[i]
            /\ result.condition3 <=> (result.price_break_ma20 \/ result.price_break_high)

\* the close is above the highs of the bars before it and below the high of
\* its own bar
C27_Witness ==
    /\ Done("fixed") /\ IsFull(result)
    /\ result.price_break_high
    /\ df.high[len(df)] > df.close[len(df)]
    /\ result.condition3

\* C28: rsi_recovery is true when RSI was below 30 at one of the last five
\* bars and is above 50 at the current bar
C28_RsiRecoveryWithinLookback ==
    (pc = "done" /\ script \in {"fixed", "etf"} /\ IsFull(result)) =>
        LET last == len(df)
        IN  (/\ \E i \in (last - 4)..last : Lt(df.RSI[i], Num(30))
             /\ Gt(df.RSI[last], Num(50)))
            => result.rsi_recovery

\* the labels from the weakest to the strongest
StrengthRank(label) ==
    CHOOSE k \in 0..3 : <<"none", "weak", "medium", "strong">>[k + 1] = label

\* the cut points of the variant that ran and its highest score
StrengthCuts == IF script = "etf_analysis" THEN {3, 5, 7} ELSE {4, 7, 10}

\* C25: the label is the band of the score: strong from 7, medium for 5 and
\* 6, weak for 3 and 4, none below 3 (cut points 10, 7 and 4 in the short
\* variant); every score has one label and no higher score a weaker one
C25_StrengthIsMonotonicStepFunction ==
    pc = "rated" =>
        /\ result.strength \in {"none", "weak", "medium", "strong"}
        /\ StrengthRank(result.strength)
               = Cardinality({cut \in StrengthCuts : result.score >= cut})
        /\ \A low_score, high_score \in 0..15 :
              low_score <= high_score =>
                  IF script = "etf_analysis"
                  THEN StrengthRank(strength_of(low_score)) <= StrengthRank(strength_of(high_score))
                  ELSE StrengthRank(strength_short(low_score)) <= StrengthRank(strength_short(high_score))

\* a score of 7: the lowest strong one of the 10-point variant
C25_Witness ==
    /\ pc = "rated"
    /\ script = "etf_analysis"
    /\ result.score = 7
    /\ result.strength = "strong"

\* C26: an assessment of check_bottom_breakout with all_conditions_met on a
\* history of at least 60 bars has a score of at least 9 points
C26_ConfirmedBreakoutIsStrong ==
    (pc = "done" /\ script \in {"fixed", "etf", "industry"} /\ IsFull(result)
     /\ len(df) >= 60 /\ result.all_conditions_met) =>
        result.score >= 90

\* the four conditions on exactly 60 bars, without the bonus of the volume
\* and without that of the double price break
C26_Witness ==
    /\ Done("fixed") /\ IsFull(result)
    /\ len(df) = 60
    /\ result.all_conditions_met
    /\ ~result.price_break_high
    /\ result.volume_ratio <= 180

\* the window of MA20 and the slow span of the MACD in the script that ran
MaWindow == IF script = "fixed" THEN Min(20, len(df) \div 3) ELSE 20

SlowSpan == IF script = "fixed" THEN Min(26, len(df) \div 2) ELSE 26

\* C24: the moving average is undefined at the first w-1 positions and the
\* mean of the trailing w closes from position w on; the MACD line and its
\* signal line are undefined at the positions before their slow span is
\* filled
C24_AveragesUndefinedBeforeWindow ==
    /\ HasColumn("MA20") =>
          \A i \in 1..len(df) :
              IF i < MaWindow THEN isna(df.MA20[i])
              ELSE /\ ~isna(df.MA20[i])
                   /\ df.MA20[i].n * MaWindow
                          = df.MA20[i].d * SumRange(df.close, i - MaWindow + 1, i)
    /\ HasColumn("MACD") =>
          \A i \in 1..(SlowSpan - 1) :
              df.MACD[i] \notin Int /\ df.MACD_signal[i] \notin Int

\* a DataFrame without rows
EmptyFrame == DataFrame(<<>>, <<>>, <<>>, <<>>)

\* the earliest positions a full assessment of the adaptive variant reads:
\* the starts of the analysis and lookback windows, of the volume baseline
\* and of the reference highs, RSI five bars back and MACD one bar back
PositionsRead ==
    LET last == len(df)
    IN  {last - Min(60, last) + 1, last - Min(120, last) + 1,
         last - 19, last - Min(20, Min(60, last) - 1) + 1}
        \cup (IF "RSI" \in df.columns THEN {last - 4} ELSE {})
        \cup (IF "MACD" \in df.columns THEN {last - 1} ELSE {})

\* C23: calculate_technical_indicators followed by check_bottom_breakout of
\* the adaptive variant ends for every length: an indicator is in the frame
\* only if its window fits the history, every position read is in the
\* history, a history of at least one bar gets an assessment (a basic one
\* below 20 bars), and a missing or empty history gets None
C23_ShortHistoryDegrades ==
    /\ (pc \in {"indicators", "done"} /\ script = "fixed") =>
          /\ "MA20" \in df.columns => (len(df) >= 20 /\ Len(df.MA20) = len(df))
          /\ "MACD" \in df.columns =>
                (len(df) >= 26 /\ Len(df.MACD) = len(df) /\ Len(df.MACD_signal) = len(df))
          /\ "RSI" \in df.columns => (len(df) >= 14 /\ Len(df.RSI) = len(df))
    /\ Done("fixed") =>
          /\ result # None
          /\ result.data_days = len(df)
          /\ IsBasic(result) <=> len(df) < 20
          /\ IsFull(result) => \A position \in PositionsRead : position \in 1..len(df)
    /\ check_bottom_breakout_fixed(calculate_technical_indicators_fixed(None)) = {None}
    /\ check_bottom_breakout_fixed(calculate_technical_indicators_fixed(EmptyFrame)) = {None}

\* a full assessment on a history too short for the MACD
C23_Witness ==
    /\ Done("fixed") /\ IsFull(result)
    /\ len(df) < 26
    /\ "MACD" \notin df.columns
    /\ "RSI" \in df.columns

\* C30: in the main function of every analysis script, a successful login
\* is followed by a logout before main returns: main never returns with the
\* baostock session still open
C30_LogoutBeforeReturn ==
    pc = "returned" => ~logged_in

====
